---- MODULE Spec2Model ----
(***************************************************************************)
(* Pricing server: the validating session (second Client definition of     *)
(* internal/server/client.go), the hub of internal/server/hub.go, the      *)
(* contract proxy of internal/contracts/proxy.go and the goroutine fan-out *)
(* simulation engine with a priming event (src/unnamed/part_005).          *)
(*                                                                         *)
(* The contracts service (Python, reached over HTTP) is not part of the    *)
(* repository: every call to it answers nondeterministically.              *)
(***************************************************************************)
EXTENDS Integers, Sequences, FiniteSets, TLC

(***************************************************************************)
(* Bounds of the model.                                                    *)
(***************************************************************************)
\* sessions that may connect
NClients == 2
\* ContractProxy objects created during a run (submitted or restored)
MaxProxies == 2
\* ticker firings of the simulation engine
MaxTicks == 1
\* capacity of a session's Send channel (256 in the program, scaled down)
SendCap == 1
\* capacity of the Send channel in the single-session scenario
WideCap == 2
\* distinct hex tokens GenerateUniqueID may return, besides ""
NTokens == 1
\* contracts the hub restores at boot
MaxRestore == 2
\* longest list GetActiveContracts returns at boot, and the ids it may hold
MaxListed == 3
NListedIds == 2
\* largest finite value of the scaled-down float64 of the generator's runs
\* a run of the hub alone: the contract ids, the messages broadcast and
\* the capacity of a Send channel
NHubIds == 2
MaxBroadcasts == 2
HubCap == 1

\* contracts and ticker firings in a run of the engine alone
NEngineIds == 2
MaxFirings == 2

MaxFloat == 255
\* longest rungs list of a submission
MaxRungs == 3
\* largest rung value of a submission
MaxRung == 3
\* price levels of the in-process engine
MaxPrice == 3
\* ticker firings of the in-process engine
MaxGenerated == 1
\* largest TargetMovement of a MomentumCatcher submission
MaxTarget == 2
\* largest Duration of a MomentumCatcher submission, in ticker periods
MaxDuration == 1

Clients == 1..NClients
\* contract ids of the storage service's runs
StorageIds == {"a", "b"}
\* contract ids of the hub's runs
HubIds == 1..NHubIds
\* contract ids of the engine's runs, each with a handler of its own
EngineIds == 1..NEngineIds
ProxyIds == 1..MaxProxies

(***************************************************************************)
(* Message and error types (client.go 295-307).                            *)
(***************************************************************************)
MessageTypeContractSubmission == "ContractSubmission"
MessageTypeContractAccepted == "ContractAccepted"
MessageTypeContractUpdate == "ContractUpdate"
MessageTypeContractQuery == "ContractQuery"
MessageTypeError == "Error"
ErrorTypeValidation == "ValidationError"
ErrorTypeParse == "ParseError"

(***************************************************************************)
(* Contract ids.  GenerateUniqueID returns hex.EncodeToString of 16 random *)
(* bytes, or "" when rand.Read fails; 0 stands for "", 1..NTokens for the  *)
(* 32-character tokens.  Nothing compares the token with the ids in use.   *)
(***************************************************************************)
EmptyID == 0
GenerateUniqueID == 0..NTokens
ContractIDs == GenerateUniqueID

(***************************************************************************)
(* Decoded submissions.  Numbers are integers: validation only compares    *)
(* them with zero and with each other.  A field absent from the JSON keeps *)
(* Go's zero value ("" / 0 / empty list).                                  *)
(***************************************************************************)
ProductTypes == {"", "LuckyLadder", "MomentumCatcher", "InvalidProduct"}
Amounts == {-1, 0, 1}

RECURSIVE SeqsUpTo(_, _)
SeqsUpTo(S, n) ==
    IF n = 0 THEN {<<>>}
    ELSE LET shorter == SeqsUpTo(S, n - 1)
         IN  shorter \cup {Append(s, x) : s \in {r \in shorter : Len(r) = n - 1}, x \in S}

RungLists == SeqsUpTo(1..MaxRung, MaxRungs)

ContractData ==
    [ProductType : ProductTypes, Rungs : RungLists, TargetMovement : Amounts,
     Duration : Amounts, Payoff : Amounts]

NoError == "nil"

\* the duplicate loop: the first rung already in `seen` returns the error
HasDuplicateRung(rungs) ==
    \E i, j \in 1..Len(rungs) : i < j /\ rungs[i] = rungs[j]

\* the order loop: the first i with Rungs[i] <= Rungs[i-1] returns the error
HasDescendingStep(rungs) ==
    \E i \in 2..Len(rungs) : rungs[i] <= rungs[i - 1]

\* validateContractData with `Duration < 0` where the code has `<= 0`
validateContractDataZeroDuration(data) ==
    IF data.ProductType = "" THEN "productType is required"
    ELSE IF data.Duration < 0 THEN "duration must be positive"
    ELSE IF data.Payoff <= 0 THEN "payoff must be positive"
    ELSE IF data.ProductType = "LuckyLadder" THEN
        IF Len(data.Rungs) = 0 THEN "rungs are required for LuckyLadder"
        ELSE IF HasDuplicateRung(data.Rungs) THEN "duplicate rung values are not allowed"
        ELSE IF HasDescendingStep(data.Rungs) THEN "rungs must be in ascending order"
        ELSE NoError
    ELSE IF data.ProductType = "MomentumCatcher" THEN
        IF data.TargetMovement <= 0 THEN "targetMovement must be positive"
        ELSE NoError
    ELSE "unsupported product type: " \o data.ProductType

\* validateContractData with the order loop run before the duplicate loop
validateContractDataOrderFirst(data) ==
    IF data.ProductType = "" THEN "productType is required"
    ELSE IF data.Duration <= 0 THEN "duration must be positive"
    ELSE IF data.Payoff <= 0 THEN "payoff must be positive"
    ELSE IF data.ProductType = "LuckyLadder" THEN
        IF Len(data.Rungs) = 0 THEN "rungs are required for LuckyLadder"
        ELSE IF HasDescendingStep(data.Rungs) THEN "rungs must be in ascending order"
        ELSE IF HasDuplicateRung(data.Rungs) THEN "duplicate rung values are not allowed"
        ELSE NoError
    ELSE IF data.ProductType = "MomentumCatcher" THEN
        IF data.TargetMovement <= 0 THEN "targetMovement must be positive"
        ELSE NoError
    ELSE "unsupported product type: " \o data.ProductType

(***************************************************************************)
(* validateContractData (client.go 448-493): the error it returns, or nil. *)
(***************************************************************************)
validateContractData(data) ==
    IF data.ProductType = "" THEN "productType is required"
    ELSE IF data.Duration <= 0 THEN "duration must be positive"
    ELSE IF data.Payoff <= 0 THEN "payoff must be positive"
    ELSE IF data.ProductType = "LuckyLadder" THEN
        IF Len(data.Rungs) = 0 THEN "rungs are required for LuckyLadder"
        ELSE IF HasDuplicateRung(data.Rungs) THEN "duplicate rung values are not allowed"
        ELSE IF HasDescendingStep(data.Rungs) THEN "rungs must be in ascending order"
        ELSE NoError
    ELSE IF data.ProductType = "MomentumCatcher" THEN
        IF data.TargetMovement <= 0 THEN "targetMovement must be positive"
        ELSE NoError
    ELSE "unsupported product type: " \o data.ProductType

(***************************************************************************)
(* Outbound frames.  A ContractUpdate's data payload is not modelled.      *)
(***************************************************************************)
ErrorResponse(errorType, message) ==
    [type |-> MessageTypeError, contractID |-> EmptyID,
     errorType |-> errorType, message |-> message]

ContractAccepted(id) ==
    [type |-> MessageTypeContractAccepted, contractID |-> id,
     errorType |-> "", message |-> ""]

ContractUpdate(id) ==
    [type |-> MessageTypeContractUpdate, contractID |-> id,
     errorType |-> "", message |-> ""]

(***************************************************************************)
(* Inbound frames.  valid: json.Valid(message); isMessage: the frame       *)
(* unmarshals into Message; Type "" and ContractID "" (EmptyID) stand for  *)
(* absent fields; hasData: msg.Data /= nil; decodes: msg.Data unmarshals   *)
(* into ContractData, whose decoded value is data.                         *)
(***************************************************************************)
ZeroData ==
    [ProductType |-> "", Rungs |-> <<>>, TargetMovement |-> 0,
     Duration |-> 0, Payoff |-> 0]

Frame(valid, isMessage, type, hasData, decodes, data, cid) ==
    [valid |-> valid, isMessage |-> isMessage, Type |-> type, hasData |-> hasData,
     decodes |-> decodes, data |-> data, ContractID |-> cid]

InvalidJSONFrame == Frame(FALSE, FALSE, "", FALSE, FALSE, ZeroData, EmptyID)
NotAMessageFrame == Frame(TRUE, FALSE, "", FALSE, FALSE, ZeroData, EmptyID)
Submission(data) == Frame(TRUE, TRUE, MessageTypeContractSubmission, TRUE, TRUE, data, EmptyID)
UndecodableSubmission ==
    Frame(TRUE, TRUE, MessageTypeContractSubmission, TRUE, FALSE, ZeroData, EmptyID)
SubmissionWithoutData ==
    Frame(TRUE, TRUE, MessageTypeContractSubmission, FALSE, FALSE, ZeroData, EmptyID)
Query(cid) == Frame(TRUE, TRUE, MessageTypeContractQuery, FALSE, FALSE, ZeroData, cid)

\* no frame is being handled: the read pump is in ReadMessage
IdleFrame == Frame(FALSE, FALSE, "idle", FALSE, FALSE, ZeroData, EmptyID)

ValidMomentum ==
    [ProductType |-> "MomentumCatcher", Rungs |-> <<>>, TargetMovement |-> 1,
     Duration |-> 1, Payoff |-> 1]

AllFrames ==
    {InvalidJSONFrame, NotAMessageFrame, UndecodableSubmission, SubmissionWithoutData}
    \cup {Submission(d) : d \in ContractData}
    \cup {Frame(TRUE, TRUE, "", h, h, ValidMomentum, EmptyID) : h \in BOOLEAN}
    \cup {Frame(TRUE, TRUE, "Ping", FALSE, FALSE, ZeroData, EmptyID)}
    \cup {Query(cid) : cid \in ContractIDs}

(***************************************************************************)
(* What the read pump does with one frame, up to the first call that       *)
(* leaves the session: a direct reply, a contract creation or a state      *)
(* lookup.                                                                 *)
(***************************************************************************)
Reply(m) == [op |-> "reply", msg |-> m]
Create == [op |-> "create", msg |-> ErrorResponse("", "")]
Lookup == [op |-> "lookup", msg |-> ErrorResponse("", "")]

\* handleContractSubmission without the call of validateContractData
handleContractSubmissionUnvalidated(f) ==
    IF ~f.decodes THEN Reply(ErrorResponse(ErrorTypeParse, "Invalid contract data format"))
    ELSE Create

\* handleContractSubmission, lines 496-511
handleContractSubmission(f) ==
    IF ~f.decodes THEN Reply(ErrorResponse(ErrorTypeParse, "Invalid contract data format"))
    ELSE IF validateContractData(f.data) # NoError
         THEN Reply(ErrorResponse(ErrorTypeValidation, validateContractData(f.data)))
         ELSE Create

\* handleMessage, lines 378-414
handleMessage(f) ==
    IF ~f.isMessage THEN Reply(ErrorResponse(ErrorTypeParse, "Invalid message format"))
    ELSE IF f.Type = "" THEN Reply(ErrorResponse(ErrorTypeValidation, "Message type is required"))
    ELSE IF f.Type = MessageTypeContractSubmission THEN
        IF ~f.hasData
        THEN Reply(ErrorResponse(ErrorTypeValidation,
                                 "Data field is required for contract submission"))
        ELSE handleContractSubmission(f)
    ELSE IF f.Type = MessageTypeContractQuery THEN
        IF f.ContractID = EmptyID
        THEN Reply(ErrorResponse(ErrorTypeValidation,
                                 "ContractID is required for contract query"))
        ELSE Lookup
    ELSE Reply(ErrorResponse(ErrorTypeValidation, "Unknown message type: " \o f.Type))

\* the loop body without the json.Valid check of lines 367-371
ReadPumpFrameUnchecked(f) == handleMessage(f)

\* the body of ReadPump's loop, lines 366-373
ReadPumpFrame(f) ==
    IF ~f.valid THEN Reply(ErrorResponse(ErrorTypeParse, "Invalid JSON format"))
    ELSE handleMessage(f)

\* handleContractSubmission, lines 566-570: AddContract failed (the message
\* goes on with the service client's error text)
AddContractFailed ==
    ErrorResponse(ErrorTypeValidation, "Failed to create contract")

\* handleContractQuery with an update that leaves the contractID out
handleContractQueryNoID(cid, resp) ==
    IF resp = "err" THEN ErrorResponse(ErrorTypeValidation, "Failed to get contract state")
    ELSE IF resp = "nil" THEN ErrorResponse(ErrorTypeValidation, "Contract not found")
    ELSE ContractUpdate(EmptyID)

\* handleContractQuery, lines 417-445; resp is the service's answer (the
\* two error messages go on with the error text and the id)
handleContractQuery(cid, resp) ==
    IF resp = "err" THEN ErrorResponse(ErrorTypeValidation, "Failed to get contract state")
    ELSE IF resp = "nil" THEN ErrorResponse(ErrorTypeValidation, "Contract not found")
    ELSE ContractUpdate(cid)

(***************************************************************************)
(* State.                                                                  *)
(***************************************************************************)
VARIABLES
    hubpc,        \* Hub.Run: "boot" (recovery), "run" (select), "unregister" (Unregister branch)
    hubProxy,     \* recovery: the proxy subscribed and not yet started, or 0
    hubClient,    \* Unregister branch: the client being torn down, or 0
    hubVisited,   \* Unregister branch: contract ids the range loop has visited
    restored,     \* recovery: contracts restored so far
    registered,   \* Hub.Clients
    cpc,          \* per session: where its read pump stands
    cur,          \* per session: the proxy handleContractSubmission is creating, or 0
    pending,      \* per session: the frame sendMessage is about to enqueue
    Send,         \* per session: the Send channel's buffer
    closed,       \* per session: close(client.Send) has run
    Contracts,    \* per session: the keys of Client.Contracts
    frame,        \* per session: the frame the read pump is handling
    badJSON,      \* per session: an invalid-JSON frame has been answered
    writing,      \* per session: the write pump is running
    proxy,        \* the ContractProxy objects
    nproxies,     \* proxies created so far
    subscribers,  \* SimulationEngine.subscribers: contract id -> proxy, 0 when absent
    ticks,        \* ticker firings so far
    now,          \* the clock read by time.Now()
    deliveries,   \* goroutines running HandlePriceUpdate
    panicked,     \* a goroutine panicked: the process is gone
    limits,       \* the run's scenario: how much of the environment's input is explored
    vin,          \* validation runs: the frame handled and the service's answer
    vreplies,     \* validation runs: the frames the read pump enqueued for it
    BasePrice,    \* in-process products: SimulationEngine.BasePrice
    generated,    \* in-process products: ticker firings so far
    clock,        \* in-process products: the clock read by time.Now()
    handlers,     \* in-process products: SimulationEngine.subscribers, id -> product, NoHandler when absent
    mc,           \* in-process products: the MomentumCatcher of the session
    ll,           \* in-process products: the LuckyLadder of the session
    mcpc,         \* in-process products: where handleContractSubmission stands
    tasks,        \* in-process products: goroutines running mc.HandlePriceUpdate
    outbox,       \* in-process products: what reached the session's Send channel
    primed,       \* in-process products: the base price Subscribe read, or NoPrice
    observed,     \* in-process products: the first price the handler was called with, or NoPrice
    rpc,          \* recovery runs: where Hub.Run stands
    activeContracts, \* recovery runs: the list GetActiveContracts returned
    answers,      \* recovery runs: GetContractState's answers, one per id processed
    restoredIds,  \* recovery runs: the ids subscribed (with a started proxy)
    contracts,    \* storage service: the rows of the contracts table, by primary key
    lastCall,     \* storage service: the last call of a Storage method and its result
    seSubscribers, \* engine runs: SimulationEngine.subscribers, the ids in the map
    seBasePrice,  \* engine runs: SimulationEngine.BasePrice
    seSteps,      \* engine runs: calls of generatePrice so far
    seFirings,    \* engine runs: ticker firings so far
    seClock,      \* engine runs: the clock read by time.Now()
    seSpawned,    \* engine runs: the calls of HandlePriceUpdate the engine has made
    seMu,         \* engine runs: SimulationEngine.mu, "free" or the goroutine that holds it
    notify,       \* engine runs: where the tick loop stands in notifySubscribers
    hClients,     \* hub runs: Hub.Clients
    hSession,     \* hub runs: per client, "new", "open" (registered, pumps running) or "left"
    hSend,        \* hub runs: per client, the frames waiting in its Send channel
    hClosed,      \* hub runs: per client, how many times close(client.Send) has run
    hContracts,   \* hub runs: per client, the keys of Client.Contracts
    hSubscribers, \* hub runs: the contract ids in the engine's subscriber map
    hBroadcasts,  \* hub runs: messages received from Hub.Broadcast so far
    hPanicked     \* hub runs: a goroutine panicked: the process is gone

hubVars == <<hubpc, hubProxy, hubClient, hubVisited, restored, registered>>
readVars == <<frame, badJSON>>
sessionVars == <<cpc, cur, pending, Send, closed, Contracts, readVars, writing>>
engineVars == <<proxy, nproxies, subscribers, ticks, now, deliveries>>
serverVars == <<hubVars, sessionVars, engineVars, panicked>>
validationVars == <<vin, vreplies>>
productVars ==
    <<BasePrice, generated, clock, handlers, mc, ll, mcpc, tasks, outbox, primed, observed>>
recoveryVars == <<rpc, activeContracts, answers, restoredIds>>
storageVars == <<contracts, lastCall>>
engineRunVars ==
    <<seSubscribers, seBasePrice, seSteps, seFirings, seClock, seSpawned, seMu, notify>>
hubRunVars ==
    <<hClients, hSession, hSend, hClosed, hContracts, hSubscribers, hBroadcasts, hPanicked>>
componentVars == <<engineRunVars, hubRunVars>>
vars == <<serverVars, limits, componentVars, validationVars, productVars, recoveryVars, storageVars>>

NoMsg == ErrorResponse("", "")
NoFrame ==
    [frame |-> InvalidJSONFrame, addOk |-> FALSE, resp |-> "nil", id |-> EmptyID,
     state |-> "none"]

Terminal == {"inactive", "expired", "target_hit"}
\* the status field of a price-update response of the contracts service
ServiceStatuses == {"active", "expired"}

\* NewContractProxy (proxy.go 20-28), with what the model records about it
NewContractProxy(id, owner) ==
    [created |-> TRUE, contractID |-> id, owner |-> owner, isActive |-> TRUE,
     lastResponse |-> "none", wrapped |-> FALSE,
     lastSeen |-> 0, unsubscribed |-> FALSE, released |-> FALSE]

NoProxy ==
    [created |-> FALSE, contractID |-> EmptyID, owner |-> 0, isActive |-> FALSE,
     lastResponse |-> "none", wrapped |-> FALSE,
     lastSeen |-> 0, unsubscribed |-> FALSE, released |-> FALSE]

\* a goroutine started by `go handler.HandlePriceUpdate(price, timestamp)`,
\* by Subscribe (src "prime") or by the ticker's fan-out (src "tick")
Goroutine(k, t, src) ==
    [k |-> k, t |-> t, src |-> src, pc |-> "go", status |-> "", state |-> ""]

\* the frames a session is sent in the runs of the server
InvalidPayoff == Submission([ValidMomentum EXCEPT !.Payoff = 0])

SubmissionFrames == {Submission(ValidMomentum), InvalidPayoff}

SessionFrames ==
    {Submission(ValidMomentum), InvalidPayoff, InvalidJSONFrame, UndecodableSubmission,
     Query(NTokens)}

(***************************************************************************)
(* Scenarios.  A run explores one of them: the sessions that connect, the  *)
(* proxies created, the ticker firings, the contracts restored at boot,    *)
(* whether peers disconnect, whether writes to a peer fail, the capacity   *)
(* of the Send channels, and the frames the sessions are sent.             *)
(***************************************************************************)
Scenario(clients, proxies, nticks, restore, disconnects, writeFails, cap, frames) ==
    [clients |-> clients, proxies |-> proxies, ticks |-> nticks, restore |-> restore,
     disconnects |-> disconnects, writeFails |-> writeFails, cap |-> cap,
     frames |-> frames]

Scenarios ==
    {Scenario(NClients, 1, 0, 0, TRUE, FALSE, SendCap, SubmissionFrames),
     Scenario(NClients, MaxProxies, 0, 0, FALSE, FALSE, SendCap, {Submission(ValidMomentum)}),
     Scenario(1, MaxProxies, 0, 0, TRUE, FALSE, SendCap, {Submission(ValidMomentum)}),
     Scenario(1, 1, MaxTicks, 0, TRUE, FALSE, SendCap, {Submission(ValidMomentum)}),
     Scenario(0, MaxRestore, MaxTicks, MaxRestore, TRUE, FALSE, SendCap, {}),
     Scenario(1, 1, 0, 0, TRUE, TRUE, WideCap, SessionFrames)}

(***************************************************************************)
(* In-process products (third Client definition of client.go, lines        *)
(* 636-909, with internal/products/momentum_catcher.go): one session       *)
(* submits one MomentumCatcher, which the fan-out engine of part_005 feeds *)
(* from a priming goroutine and one goroutine per ticker firing.  Prices   *)
(* are levels 1..MaxPrice of a grid, timestamps count ticker periods.      *)
(***************************************************************************)
\* nil, the zero value of MomentumCatcher.StartingPrice
NoPrice == 0
\* the grid level standing for the engine's initial base price, 100.0
DefaultBasePrice == 2
Prices == 1..MaxPrice
\* goroutine 0 is Subscribe's priming goroutine, goroutine k serves firing k
TaskIds == 0..MaxGenerated
\* the submissions of the run: TargetMovement and Duration are inputs, which
\* this session does not validate (client.go 758-767)
MomentumInputs ==
    {[ValidMomentum EXCEPT !.TargetMovement = tm, !.Duration = d] :
        tm \in 1..MaxTarget, d \in 0..MaxDuration}

abs(x) == IF x < 0 THEN -x ELSE x

\* the zero value of the struct, before Init
ZeroMomentumCatcher ==
    [StartingPrice |-> NoPrice, TargetMovement |-> 0, ExpiryTime |-> 0,
     IsActive |-> FALSE, HasReachedTarget |-> FALSE, Payoff |-> 0,
     PriceHistory |-> <<>>]

\* MomentumCatcher.Init (momentum_catcher.go 36-73) at time t
InitMomentumCatcher(data, t) ==
    [StartingPrice |-> NoPrice, TargetMovement |-> data.TargetMovement,
     ExpiryTime |-> t + data.Duration, IsActive |-> TRUE,
     HasReachedTarget |-> FALSE, Payoff |-> data.Payoff, PriceHistory |-> <<>>]

\* no entry in SimulationEngine.subscribers
NoHandler == "none"

NoTask == [pc |-> "none", h |-> NoHandler, price |-> NoPrice, t |-> 0, priceMovement |-> 0]
\* go handler.HandlePriceUpdate(price, timestamp), h the handler's product
Spawn(h, price, t) ==
    [pc |-> "callback", h |-> h, price |-> price, t |-> t, priceMovement |-> 0]

\* the rungs lists of the run's LuckyLadder submissions, which this session
\* does not validate (client.go 758-767): none, the initial base price alone,
\* two rungs around it, a repeated rung
LadderRungs == {<<>>, <<DefaultBasePrice>>, <<1, MaxPrice>>, <<MaxPrice, MaxPrice>>}
LadderInputs ==
    {[ProductType |-> "LuckyLadder", Rungs |-> rungs, TargetMovement |-> 0,
      Duration |-> d, Payoff |-> 1] : rungs \in LadderRungs, d \in 0..MaxDuration}

Range(seq) == {seq[i] : i \in 1..Len(seq)}

\* the zero value of the struct, before Init
ZeroLuckyLadder ==
    [Rungs |-> <<>>, ExpiryTime |-> 0, IsActive |-> FALSE, HasHitRung |-> FALSE,
     HitRungs |-> <<>>, Payoff |-> 0, PriceHistory |-> <<>>]

\* LuckyLadder.Init without the loop of lines 43-45
InitLuckyLadderEmptyMap(data, t) ==
    [Rungs |-> data.Rungs, ExpiryTime |-> t + data.Duration, IsActive |-> TRUE,
     HasHitRung |-> FALSE, HitRungs |-> <<>>, Payoff |-> data.Payoff,
     PriceHistory |-> <<>>]

\* LuckyLadder.Init (lucky_ladder.go 28-47) at time t: HitRungs is a map, one
\* key per distinct rung value
InitLuckyLadder(data, t) ==
    [Rungs |-> data.Rungs, ExpiryTime |-> t + data.Duration, IsActive |-> TRUE,
     HasHitRung |-> FALSE, HitRungs |-> [r \in Range(data.Rungs) |-> FALSE],
     Payoff |-> data.Payoff, PriceHistory |-> <<>>]

\* the update callback's frame (client.go 772-780)
PriceUpdate(price, t) == [type |-> MessageTypeContractUpdate, status |-> "", payoff |-> 0, price |-> price, timestamp |-> t]
\* notifyClient's frame (momentum_catcher.go 151-158)
Notification(status, payoff, price, t) ==
    [type |-> MessageTypeContractUpdate, status |-> status, payoff |-> payoff, price |-> price, timestamp |-> t]
\* the confirmation (client.go 807-811)
Confirmation == [type |-> MessageTypeContractAccepted, status |-> "", payoff |-> 0, price |-> NoPrice, timestamp |-> 0]

\* no ticker firing, no submission yet
EvaluatorInit ==
    /\ generated = 0
    /\ clock = 1
    /\ handlers = [id \in ContractIDs |-> NoHandler]
    /\ mc = ZeroMomentumCatcher
    /\ ll = ZeroLuckyLadder
    /\ mcpc = "idle"
    /\ tasks = [k \in TaskIds |-> NoTask]
    /\ outbox = <<>>
    /\ primed = NoPrice
    /\ observed = NoPrice

ProductInit == BasePrice = DefaultBasePrice /\ EvaluatorInit

(***************************************************************************)
(* Recovery runs: the boot part of Hub.Run (hub.go 40-66) against a        *)
(* contracts service whose answers are inputs.                             *)
(***************************************************************************)
RecoveryInit ==
    /\ rpc = "boot"
    /\ activeContracts = <<>>
    /\ answers = <<>>
    /\ restoredIds = {}

(***************************************************************************)
(* Storage service (src/storage_service/main.go): PostgresStorage over the *)
(* contracts table, whose primary key is the id column.                    *)
(***************************************************************************)
\* no row under a key
NoRow == [ID |-> "", Parameters |-> "", IsActive |-> FALSE]
NoCall == [op |-> "none", id |-> "", contract |-> NoRow, ok |-> FALSE]

StorageInit ==
    /\ contracts = [id \in StorageIds |-> NoRow]
    /\ lastCall = NoCall

(***************************************************************************)
(* Engine runs: the SimulationEngine alone, with several handlers that are *)
(* subscribed and unsubscribed while its ticker fires.                     *)
(***************************************************************************)
\* the tick loop waits in its select (engine.go 38)
AtSelect == [pc |-> "select", todo |-> {}, id |-> 0, price |-> NoPrice, t |-> 0]

EngineInit ==
    /\ seSubscribers = [id \in EngineIds |-> 0]
    /\ seBasePrice = DefaultBasePrice
    /\ seSteps = 0
    /\ seFirings = 0
    /\ seClock = 1
    /\ seSpawned = {}
    /\ seMu = "free"
    /\ notify = AtSelect

(***************************************************************************)
(* Hub runs: the loop of Hub.Run (hub.go 66-96) with its three kinds of    *)
(* event, Register, Unregister and Broadcast, and sessions that submit     *)
(* contracts.  Nothing in the repository sends on Hub.Broadcast; the       *)
(* messages are inputs of these runs.                                      *)
(***************************************************************************)
HubRunInit ==
    /\ hClients = {}
    /\ hSession = [c \in Clients |-> "new"]
    /\ hSend = [c \in Clients |-> 0]
    /\ hClosed = [c \in Clients |-> 0]
    /\ hContracts = [c \in Clients |-> {}]
    /\ hSubscribers = {}
    /\ hBroadcasts = 0
    /\ hPanicked = FALSE

ComponentInit == EngineInit /\ HubRunInit

ServerInit ==
    /\ hubpc = "boot"
    /\ hubProxy = 0
    /\ hubClient = 0
    /\ hubVisited = {}
    /\ restored = 0
    /\ registered = {}
    /\ cpc = [c \in Clients |-> "new"]
    /\ cur = [c \in Clients |-> 0]
    /\ pending = [c \in Clients |-> NoMsg]
    /\ Send = [c \in Clients |-> <<>>]
    /\ closed = [c \in Clients |-> FALSE]
    /\ Contracts = [c \in Clients |-> {}]
    /\ frame = [c \in Clients |-> IdleFrame]
    /\ badJSON = [c \in Clients |-> FALSE]
    /\ writing = [c \in Clients |-> FALSE]
    /\ proxy = [k \in ProxyIds |-> NoProxy]
    /\ nproxies = 0
    /\ subscribers = [id \in ContractIDs |-> 0]
    /\ ticks = 0
    /\ now = 1
    /\ deliveries = {}
    /\ panicked = FALSE

ValidationInit ==
    /\ vin = NoFrame
    /\ vreplies = <<>>

Init == limits \in Scenarios /\ ServerInit /\ ValidationInit /\ ProductInit /\ RecoveryInit /\ StorageInit /\ ComponentInit

(***************************************************************************)
(* Simulation engine (src/unnamed/part_005).                               *)
(***************************************************************************)
\* se.subscribers[contractID] = handler (line 80) on the map subs
SubscribeTo(subs, id, k) == [subs EXCEPT ![id] = k]

\* a delete that empties the map
UnsubscribeEverything(subs, id) == [i \in DOMAIN subs |-> 0]

\* delete(se.subscribers, contractID) (line 93) on the map subs
UnsubscribeFrom(subs, id) == [subs EXCEPT ![id] = 0]

\* Subscribe, lines 75-86: the map after se.subscribers[contractID] = handler
Subscribe(id, k) == SubscribeTo(subscribers, id, k)

\* Unsubscribe, lines 89-95: the map after delete(se.subscribers, contractID)
Unsubscribe(id) == UnsubscribeFrom(subscribers, id)

\* the proxies after Unsubscribe(id) has returned: the handler that was
\* registered under id is recorded as unsubscribed
MarkUnsubscribed(px, id) ==
    IF subscribers[id] = 0 THEN px
    ELSE [px EXCEPT ![subscribers[id]].unsubscribed = TRUE]

Subscribed == {id \in ContractIDs : subscribers[id] # 0}

\* a ticker that fires only when no delivery is running
TickAfterDeliveries ==
    /\ deliveries = {}
    /\ ~panicked
    /\ ticks < limits.ticks
    /\ ticks' = ticks + 1
    /\ IF Subscribed # {}
       THEN /\ deliveries' = deliveries \cup {Goroutine(subscribers[id], now, "tick") : id \in Subscribed}
            /\ now' = now + 1
       ELSE UNCHANGED <<deliveries, now>>
    /\ UNCHANGED <<hubVars, sessionVars, proxy, nproxies, subscribers, panicked, limits, componentVars, validationVars, productVars, recoveryVars, storageVars>>

\* Start, lines 44-59: one firing of the ticker.  generatePrice and the
\* fan-out run only when there is a subscriber; every handler in the map
\* gets its own goroutine, all with the same timestamp.
Tick ==
    /\ ~panicked
    /\ ticks < limits.ticks
    /\ ticks' = ticks + 1
    /\ IF Subscribed # {}
       THEN /\ deliveries' = deliveries \cup {Goroutine(subscribers[id], now, "tick") : id \in Subscribed}
            /\ now' = now + 1
       ELSE UNCHANGED <<deliveries, now>>
    /\ UNCHANGED <<hubVars, sessionVars, proxy, nproxies, subscribers, panicked, limits, componentVars, validationVars, productVars, recoveryVars, storageVars>>

(***************************************************************************)
(* A session's Send channel (make(chan []byte, 256)).                      *)
(***************************************************************************)
CanSend(c) == closed[c] \/ Len(Send[c]) < limits.cap

\* `c.Send <- m`: blocks while the buffer is full, panics on a closed channel
ChanSend(c, m) ==
    /\ CanSend(c)
    /\ IF closed[c]
       THEN /\ panicked' = TRUE
            /\ UNCHANGED Send
       ELSE /\ Send' = [Send EXCEPT ![c] = Append(@, m)]
            /\ UNCHANGED panicked

\* a receive that takes the newest element of the buffer
ChanRecvNewest(q) == SubSeq(q, 1, Len(q) - 1)

\* `message, ok := <-c.Send`: the buffer after the receive, which takes the
\* oldest element
ChanRecv(q) == Tail(q)

(***************************************************************************)
(* ContractProxy.HandlePriceUpdate (proxy.go 64-124), run by a goroutine d *)
(* of the engine, with the update callback of handleContractSubmission     *)
(* (client.go 542-563) inlined where the proxy calls it.                   *)
(***************************************************************************)
Moved(d, pc) == (deliveries \ {d}) \cup {[d EXCEPT !.pc = pc]}

\* lines 64-71: the handler is invoked and reads isActive
DeliverBegin(d) ==
    /\ ~panicked
    /\ d.pc = "go"
    /\ proxy' = [proxy EXCEPT ![d.k].lastSeen = d.t]
    /\ deliveries' = IF proxy[d.k].isActive THEN Moved(d, "call") ELSE deliveries \ {d}
    /\ UNCHANGED <<hubVars, sessionVars, nproxies, subscribers, ticks, now, panicked,
                   limits, componentVars, validationVars, productVars, recoveryVars, storageVars>>

\* lines 73-102: UpdatePrice answers; an error or an undecodable body ends
\* the call, otherwise the response becomes lastResponse
DeliverResponse(d) ==
    /\ ~panicked
    /\ d.pc = "call"
    /\ \E resp \in {"err"} \cup ServiceStatuses :
        IF resp = "err"
        THEN /\ deliveries' = deliveries \ {d}
             /\ UNCHANGED proxy
        ELSE /\ proxy' = [proxy EXCEPT ![d.k].lastResponse = resp, ![d.k].wrapped = FALSE]
             /\ deliveries' = (deliveries \ {d}) \cup
                    {[d EXCEPT !.status = resp,
                               !.pc = IF proxy[d.k].owner = 0 THEN "store" ELSE "callback"]}
    /\ UNCHANGED <<hubVars, sessionVars, nproxies, subscribers, ticks, now, panicked,
                   limits, componentVars, validationVars, productVars, recoveryVars, storageVars>>

\* GetState (proxy.go 138-151) as the callback reads it: the top-level
\* status of lastResponse; the update stored by SendMessage has none
GetStateStatus(k) ==
    IF proxy[k].lastResponse = "none" THEN "active"
    ELSE IF proxy[k].wrapped THEN ""
    ELSE proxy[k].lastResponse

\* client.go 543: state := proxy.GetState()
DeliverCallbackState(d) ==
    /\ ~panicked
    /\ d.pc = "callback"
    /\ deliveries' = (deliveries \ {d}) \cup
            {[d EXCEPT !.state = GetStateStatus(d.k), !.pc = "send"]}
    /\ UNCHANGED <<hubVars, sessionVars, proxy, nproxies, subscribers, ticks, now, panicked,
                   limits, componentVars, validationVars, productVars, recoveryVars, storageVars>>

\* client.go 552-553: c.Send <- updateBytes
DeliverCallbackSend(d) ==
    /\ ~panicked
    /\ d.pc = "send"
    /\ ChanSend(proxy[d.k].owner, ContractUpdate(proxy[d.k].contractID))
    /\ deliveries' = Moved(d, IF d.state \in Terminal THEN "unsubscribe" ELSE "store")
    /\ UNCHANGED <<hubVars, cpc, cur, pending, closed, Contracts, proxy, nproxies,
                   subscribers, ticks, now, limits, componentVars, readVars,
                   writing, validationVars, productVars, recoveryVars, storageVars>>

\* client.go 558-562: the terminal branch of the callback
DeliverCallbackUnsubscribe(d) ==
    /\ ~panicked
    /\ d.pc = "unsubscribe"
    /\ subscribers' = Unsubscribe(proxy[d.k].contractID)
    /\ Contracts' = [Contracts EXCEPT ![proxy[d.k].owner] = @ \ {proxy[d.k].contractID}]
    /\ proxy' = [MarkUnsubscribed(proxy, proxy[d.k].contractID) EXCEPT ![d.k].released = TRUE]
    /\ deliveries' = Moved(d, "store")
    /\ UNCHANGED <<hubVars, cpc, cur, pending, Send, closed, nproxies, ticks, now, panicked,
                   limits, componentVars, readVars,
                   writing, validationVars, productVars, recoveryVars, storageVars>>

\* proxy.go 116-123: SendMessage stores the update as lastResponse, then
\* the status switch stops the proxy on a terminal status
DeliverStore(d) ==
    /\ ~panicked
    /\ d.pc = "store"
    /\ proxy' = [proxy EXCEPT ![d.k].lastResponse = d.status,
                              ![d.k].wrapped = TRUE,
                              ![d.k].isActive = IF d.status \in Terminal THEN FALSE ELSE @]
    /\ deliveries' = deliveries \ {d}
    /\ UNCHANGED <<hubVars, sessionVars, nproxies, subscribers, ticks, now, panicked,
                   limits, componentVars, validationVars, productVars, recoveryVars, storageVars>>

(***************************************************************************)
(* Hub.Run (hub.go 35-97).  Nothing in the repository sends on Broadcast.  *)
(***************************************************************************)
\* lines 40-58: recovery restores one contract the service lists as active:
\* NewContractProxy with a nil callback, then Subscribe, which starts the
\* priming goroutine
HubRestore ==
    /\ ~panicked
    /\ hubpc = "boot"
    /\ hubProxy = 0
    /\ restored < limits.restore
    /\ nproxies < limits.proxies
    /\ \E id \in ContractIDs :
        /\ proxy' = [proxy EXCEPT ![nproxies + 1] = NewContractProxy(id, 0)]
        /\ subscribers' = Subscribe(id, nproxies + 1)
        /\ deliveries' = deliveries \cup {Goroutine(nproxies + 1, now, "prime")}
    /\ nproxies' = nproxies + 1
    /\ now' = now + 1
    /\ restored' = restored + 1
    /\ hubProxy' = nproxies + 1
    /\ UNCHANGED <<hubpc, hubClient, hubVisited, registered, sessionVars, ticks, panicked,
                   limits, componentVars, validationVars, productVars, recoveryVars, storageVars>>

\* line 59: proxy.Start()
HubRestoreStart ==
    /\ ~panicked
    /\ hubpc = "boot"
    /\ hubProxy # 0
    /\ proxy' = [proxy EXCEPT ![hubProxy].isActive = TRUE]
    /\ hubProxy' = 0
    /\ UNCHANGED <<hubpc, hubClient, hubVisited, restored, registered, sessionVars, nproxies,
                   subscribers, ticks, now, deliveries, panicked, limits, componentVars, validationVars, productVars, recoveryVars, storageVars>>

\* line 66: recovery is over (or GetActiveContracts failed), the loop starts
HubEnterLoop ==
    /\ ~panicked
    /\ hubpc = "boot"
    /\ hubProxy = 0
    /\ hubpc' = "run"
    /\ UNCHANGED <<hubProxy, hubClient, hubVisited, restored, registered, sessionVars,
                   engineVars, panicked, limits, componentVars, validationVars, productVars, recoveryVars, storageVars>>

\* serveWs (cmd/pricingserver/main.go 17-34) and lines 68-71: the new
\* client is handed to the hub, then its pumps start
HubRegister(c) ==
    /\ ~panicked
    /\ hubpc = "run"
    /\ cpc[c] = "new"
    /\ c <= limits.clients
    /\ \A b \in Clients : b < c => cpc[b] # "new"
    /\ registered' = registered \cup {c}
    /\ cpc' = [cpc EXCEPT ![c] = "read"]
    /\ writing' = [writing EXCEPT ![c] = TRUE]
    /\ UNCHANGED <<hubpc, hubProxy, hubClient, hubVisited, restored, cur, pending, Send,
                   closed, Contracts, engineVars, panicked, limits, componentVars, readVars,
                   validationVars, productVars, recoveryVars, storageVars>>

\* lines 72-76: the hub receives the client from Unregister, removes it
\* from Clients and closes its Send channel
HubUnregister(c) ==
    /\ ~panicked
    /\ hubpc = "run"
    /\ cpc[c] = "unregister"
    /\ cpc' = [cpc EXCEPT ![c] = "done"]
    /\ IF c \in registered
       THEN /\ registered' = registered \ {c}
            /\ closed' = [closed EXCEPT ![c] = TRUE]
            /\ hubpc' = "unregister"
            /\ hubClient' = c
       ELSE UNCHANGED <<registered, closed, hubpc, hubClient>>
    /\ UNCHANGED <<hubProxy, hubVisited, restored, cur, pending, Send, Contracts,
                   engineVars, panicked, limits, componentVars, readVars,
                   writing, validationVars, productVars, recoveryVars, storageVars>>

\* lines 78-81: one round of the range over client.Contracts; the result
\* of RemoveContract is dropped
HubUnsubscribe ==
    /\ ~panicked
    /\ hubpc = "unregister"
    /\ \E id \in Contracts[hubClient] \ hubVisited :
        /\ subscribers' = Unsubscribe(id)
        /\ proxy' = MarkUnsubscribed(proxy, id)
        /\ hubVisited' = hubVisited \cup {id}
    /\ UNCHANGED <<hubpc, hubProxy, hubClient, restored, registered, sessionVars, nproxies,
                   ticks, now, deliveries, panicked, limits, componentVars, validationVars, productVars, recoveryVars, storageVars>>

\* lines 82-83: the range is exhausted, the hub is back at its select
HubUnregisterDone ==
    /\ ~panicked
    /\ hubpc = "unregister"
    /\ Contracts[hubClient] \ hubVisited = {}
    /\ hubpc' = "run"
    /\ hubClient' = 0
    /\ hubVisited' = {}
    /\ UNCHANGED <<hubProxy, restored, registered, sessionVars, engineVars, panicked,
                   limits, componentVars, validationVars, productVars, recoveryVars, storageVars>>

HubStep ==
    \/ HubRestore
    \/ HubRestoreStart
    \/ HubEnterLoop
    \/ \E c \in Clients : HubRegister(c)
    \/ \E c \in Clients : HubUnregister(c)
    \/ HubUnsubscribe
    \/ HubUnregisterDone

(***************************************************************************)
(* The validating session (client.go 332-634).                             *)
(***************************************************************************)
\* ReadPump, lines 359-373, up to the handler's first shared step: a frame
\* is read; a rejected frame leaves an Error to send; an accepted
\* submission draws its id, creates the proxy, adds the contract to the
\* service and subscribes the proxy (lines 513-572)
ReadFrame(c) ==
    /\ ~panicked
    /\ cpc[c] = "read"
    /\ writing[c]
    /\ \E f \in limits.frames :
        /\ frame' = [frame EXCEPT ![c] = f]
        /\ LET r == ReadPumpFrame(f) IN
           \/ /\ r.op = "reply"
              /\ pending' = [pending EXCEPT ![c] = r.msg]
              /\ cpc' = [cpc EXCEPT ![c] = "reply"]
              /\ UNCHANGED <<cur, engineVars>>
           \/ /\ r.op = "lookup"
              /\ \E resp \in {"err", "nil", "state"} :
                   pending' = [pending EXCEPT ![c] = handleContractQuery(f.ContractID, resp)]
              /\ cpc' = [cpc EXCEPT ![c] = "reply"]
              /\ UNCHANGED <<cur, engineVars>>
           \/ /\ r.op = "create"
              /\ pending' = [pending EXCEPT ![c] = AddContractFailed]
              /\ cpc' = [cpc EXCEPT ![c] = "reply"]
              /\ UNCHANGED <<cur, engineVars>>
           \/ /\ r.op = "create"
              /\ nproxies < limits.proxies
              /\ \E id \in GenerateUniqueID :
                   /\ proxy' = [proxy EXCEPT ![nproxies + 1] = NewContractProxy(id, c)]
                   /\ subscribers' = Subscribe(id, nproxies + 1)
              /\ deliveries' = deliveries \cup {Goroutine(nproxies + 1, now, "prime")}
              /\ nproxies' = nproxies + 1
              /\ now' = now + 1
              /\ cur' = [cur EXCEPT ![c] = nproxies + 1]
              /\ cpc' = [cpc EXCEPT ![c] = "start"]
              /\ UNCHANGED <<pending, ticks>>
    /\ UNCHANGED <<hubVars, Send, closed, Contracts, badJSON, writing, panicked, limits, componentVars,
                   validationVars, productVars, recoveryVars, storageVars>>

\* line 573: proxy.Start()
HandlerStart(c) ==
    /\ ~panicked
    /\ cpc[c] = "start"
    /\ proxy' = [proxy EXCEPT ![cur[c]].isActive = TRUE]
    /\ cpc' = [cpc EXCEPT ![c] = "assign"]
    /\ UNCHANGED <<hubVars, cur, pending, Send, closed, Contracts, nproxies, subscribers,
                   ticks, now, deliveries, panicked, limits, componentVars, readVars,
                   writing, validationVars, productVars, recoveryVars, storageVars>>

\* line 575: c.Contracts[contractID] = contractData.ProductType
HandlerAssign(c) ==
    /\ ~panicked
    /\ cpc[c] = "assign"
    /\ Contracts' = [Contracts EXCEPT ![c] = @ \cup {proxy[cur[c]].contractID}]
    /\ pending' = [pending EXCEPT ![c] = ContractAccepted(proxy[cur[c]].contractID)]
    /\ cpc' = [cpc EXCEPT ![c] = "reply"]
    /\ UNCHANGED <<hubVars, cur, Send, closed, engineVars, panicked, limits, componentVars, readVars,
                   writing, validationVars, productVars, recoveryVars, storageVars>>

\* a handler that returns without a reply, as the handlers of the proxy
\* session do (client.go 98-121)
HandlerReplySilent(c) ==
    /\ ~panicked
    /\ cpc[c] = "reply"
    /\ pending' = [pending EXCEPT ![c] = NoMsg]
    /\ cur' = [cur EXCEPT ![c] = 0]
    /\ cpc' = [cpc EXCEPT ![c] = "read"]
    /\ frame' = [frame EXCEPT ![c] = IdleFrame]
    /\ badJSON' = [badJSON EXCEPT ![c] = @ \/ frame[c] = InvalidJSONFrame]
    /\ UNCHANGED <<hubVars, Send, closed, Contracts, writing, engineVars, panicked, limits, componentVars, validationVars, productVars, recoveryVars, storageVars>>

\* sendMessage, lines 595-604: c.Send <- message, then the pump reads on
HandlerReply(c) ==
    /\ ~panicked
    /\ cpc[c] = "reply"
    /\ ChanSend(c, pending[c])
    /\ pending' = [pending EXCEPT ![c] = NoMsg]
    /\ cur' = [cur EXCEPT ![c] = 0]
    /\ cpc' = [cpc EXCEPT ![c] = "read"]
    /\ frame' = [frame EXCEPT ![c] = IdleFrame]
    /\ badJSON' = [badJSON EXCEPT ![c] = @ \/ frame[c] = InvalidJSONFrame]
    /\ UNCHANGED <<hubVars, closed, Contracts, writing, engineVars, limits, componentVars, validationVars, productVars, recoveryVars, storageVars>>

\* lines 355-364: ReadMessage fails (the peer is gone, or the write pump
\* has closed the connection); the deferred function waits to hand the
\* client to Hub.Unregister
ReadError(c) ==
    /\ ~panicked
    /\ limits.disconnects \/ ~writing[c]
    /\ cpc[c] = "read"
    /\ cpc' = [cpc EXCEPT ![c] = "unregister"]
    /\ UNCHANGED <<hubVars, cur, pending, Send, closed, Contracts, engineVars, panicked,
                   limits, componentVars, readVars,
                   writing, validationVars, productVars, recoveryVars, storageVars>>

\* WritePump, lines 614-626: the next queued frame is written to the peer
WritePump(c) ==
    /\ ~panicked
    /\ writing[c]
    /\ Send[c] # <<>>
    /\ Send' = [Send EXCEPT ![c] = ChanRecv(@)]
    /\ UNCHANGED <<hubVars, cpc, cur, pending, closed, Contracts, engineVars, panicked,
                   limits, componentVars, readVars,
                   writing, validationVars, productVars, recoveryVars, storageVars>>

\* WritePump, lines 609-612 and 622-631: writing a frame or a ping fails
\* (or runs into the deadline); the pump returns and closes the connection
WriteError(c) ==
    /\ ~panicked
    /\ limits.writeFails
    /\ writing[c]
    /\ writing' = [writing EXCEPT ![c] = FALSE]
    /\ \/ /\ Send[c] # <<>>
          /\ Send' = [Send EXCEPT ![c] = ChanRecv(@)]
       \/ UNCHANGED Send
    /\ UNCHANGED <<hubVars, cpc, cur, pending, closed, Contracts, readVars, engineVars,
                   panicked, limits, componentVars, validationVars, productVars, recoveryVars, storageVars>>

\* the read pump and the handlers it calls
ReadPumpStep(c) ==
    \/ ReadFrame(c)
    \/ HandlerStart(c)
    \/ HandlerAssign(c)
    \/ HandlerReply(c)
    \/ ReadError(c)

SessionStep(c) ==
    \/ ReadPumpStep(c)
    \/ WritePump(c)
    \/ WriteError(c)

DeliveryStep(d) ==
    \/ DeliverBegin(d)
    \/ DeliverResponse(d)
    \/ DeliverCallbackState(d)
    \/ DeliverCallbackSend(d)
    \/ DeliverCallbackUnsubscribe(d)
    \/ DeliverStore(d)

Next ==
    \/ HubStep
    \/ Tick
    \/ \E c \in Clients : SessionStep(c)
    \/ \E d \in deliveries : DeliveryStep(d)

Spec == Init /\ [][Next]_vars

\* the hub's goroutine is scheduled as long as it can take a step
FairSpec == Spec /\ WF_vars(HubStep)

\* so are the read pumps
TeardownFairSpec ==
    Spec /\ WF_vars(HubStep) /\ \A c \in Clients : WF_vars(ReadPumpStep(c))

(***************************************************************************)
(* Validation runs: one frame, drawn from AllFrames, goes through the body *)
(* of ReadPump's loop (client.go 366-373) in a session of its own; the     *)
(* service's answers and the id drawn are inputs too.                      *)
(***************************************************************************)
NoScenario == Scenario(0, 0, 0, 0, FALSE, FALSE, SendCap, {})

\* the frame the handlers enqueue themselves for frame f (sendError,
\* sendMessage): addOk is AddContract's outcome, resp GetContractState's
\* answer, id the token GenerateUniqueID returned
DirectReply(f, addOk, resp, id) ==
    LET r == ReadPumpFrame(f) IN
    IF r.op = "reply" THEN r.msg
    ELSE IF r.op = "lookup" THEN handleContractQuery(f.ContractID, resp)
    ELSE IF addOk THEN ContractAccepted(id)
    ELSE AddContractFailed

ReadPumpOnce ==
    /\ vin.state = "none"
    /\ \E f \in AllFrames, addOk \in BOOLEAN, resp \in {"err", "nil", "state"},
          id \in GenerateUniqueID :
        /\ vin' = [frame |-> f, addOk |-> addOk, resp |-> resp, id |-> id,
                   state |-> "handled"]
        /\ vreplies' = <<DirectReply(f, addOk, resp, id)>>
    /\ UNCHANGED <<serverVars, limits, componentVars, productVars, recoveryVars, storageVars>>

ValidationStart ==
    limits = NoScenario /\ ServerInit /\ ValidationInit /\ ProductInit /\ RecoveryInit /\ StorageInit /\ ComponentInit

ValidationSpec == ValidationStart /\ [][ReadPumpOnce]_vars

(***************************************************************************)
(* In-process products: the session's submission handler, the engine's     *)
(* ticker and the goroutines that run MomentumCatcher.HandlePriceUpdate.   *)
(* The evaluator takes no lock, so a goroutine is followed statement by    *)
(* statement.  outbox lists the frames offered to the Send channel by the  *)
(* non-blocking sends of client.go 748-755, 783-788 and 872-877; a frame   *)
(* is dropped only when 256 frames wait, which no run of this size reaches. *)
(***************************************************************************)
\* the target test of momentum_catcher.go 109
TargetMetStrictly(priceMovement, target) == priceMovement > target

TargetMet(priceMovement, target) == priceMovement >= target

\* handleContractSubmission up to Subscribe (client.go 758-801), with
\* initializeProduct (815-853) and SimulationEngine.Subscribe (part_005 75-86);
\* the id is a token: rand.Read succeeds
SubmitMomentum ==
    /\ mcpc = "idle"
    /\ \E data \in MomentumInputs, id \in GenerateUniqueID \ {EmptyID} :
        /\ mc' = InitMomentumCatcher(data, clock)
        /\ handlers' = [handlers EXCEPT ![id] = "MomentumCatcher"]
    /\ tasks' = [tasks EXCEPT ![0] = Spawn("MomentumCatcher", BasePrice, clock)]
    /\ primed' = BasePrice
    /\ mcpc' = "subscribed"
    /\ UNCHANGED <<BasePrice, generated, clock, outbox, observed>>
    /\ UNCHANGED <<serverVars, limits, componentVars, validationVars, recoveryVars, storageVars, ll>>

\* the rest of handleContractSubmission (client.go 802-811)
AcceptMomentum ==
    /\ mcpc = "subscribed"
    /\ mcpc' = "accepted"
    /\ outbox' = Append(outbox, Confirmation)
    /\ UNCHANGED <<BasePrice, generated, clock, handlers, mc, tasks, primed, observed>>
    /\ UNCHANGED <<serverVars, limits, componentVars, validationVars, recoveryVars, storageVars, ll>>

ProductSubscribed == {id \in ContractIDs : handlers[id] # NoHandler}
\* the handler the range loop of part_005 50-55 finds: a run has one contract
SubscribedHandler == handlers[CHOOSE id \in ProductSubscribed : TRUE]

\* one firing of the ticker (part_005 44-59), generatePrice (98-113) included:
\* the factor of the geometric step is any positive number
ProductTick ==
    /\ generated < MaxGenerated
    /\ generated' = generated + 1
    /\ clock' = clock + 1
    /\ IF ProductSubscribed # {}
       THEN \E price \in Prices :
               /\ BasePrice' = price
               /\ tasks' = [tasks EXCEPT ![generated + 1] =
                              Spawn(SubscribedHandler, price, clock + 1)]
       ELSE UNCHANGED <<BasePrice, tasks>>
    /\ UNCHANGED <<handlers, mc, mcpc, outbox, primed, observed>>
    /\ UNCHANGED <<serverVars, limits, componentVars, validationVars, recoveryVars, storageVars, ll>>

TaskMoved(k, pc) == tasks' = [tasks EXCEPT ![k].pc = pc]

\* momentum_catcher.go 87-92: the update callback, set before Subscribe
McCallback(k) ==
    /\ tasks[k].h = "MomentumCatcher"
    /\ tasks[k].pc = "callback"
    /\ observed' = IF observed = NoPrice THEN tasks[k].price ELSE observed
    /\ outbox' = Append(outbox, PriceUpdate(tasks[k].price, tasks[k].t))
    /\ TaskMoved(k, "active")
    /\ UNCHANGED <<BasePrice, generated, clock, handlers, mc, mcpc, primed>>
    /\ UNCHANGED <<serverVars, limits, componentVars, validationVars, recoveryVars, storageVars, ll>>

\* momentum_catcher.go 94-96
McCheckActive(k) ==
    /\ tasks[k].pc = "active"
    /\ TaskMoved(k, IF mc.IsActive THEN "start" ELSE "done")
    /\ UNCHANGED <<BasePrice, generated, clock, handlers, mc, mcpc, outbox, primed, observed>>
    /\ UNCHANGED <<serverVars, limits, componentVars, validationVars, recoveryVars, storageVars, ll>>

\* momentum_catcher.go 99: the test of StartingPrice
McCheckStart(k) ==
    /\ tasks[k].pc = "start"
    /\ TaskMoved(k, IF mc.StartingPrice = NoPrice THEN "assign" ELSE "history")
    /\ UNCHANGED <<BasePrice, generated, clock, handlers, mc, mcpc, outbox, primed, observed>>
    /\ UNCHANGED <<serverVars, limits, componentVars, validationVars, recoveryVars, storageVars, ll>>

\* momentum_catcher.go 100: the assignment of StartingPrice
McAssignStart(k) ==
    /\ tasks[k].pc = "assign"
    /\ mc' = [mc EXCEPT !.StartingPrice = tasks[k].price]
    /\ TaskMoved(k, "history")
    /\ UNCHANGED <<BasePrice, generated, clock, handlers, mcpc, outbox, primed, observed>>
    /\ UNCHANGED <<serverVars, limits, componentVars, validationVars, recoveryVars, storageVars, ll>>

\* momentum_catcher.go 104-107
McMovement(k) ==
    /\ tasks[k].pc = "history"
    /\ mc' = [mc EXCEPT !.PriceHistory = Append(@, tasks[k].price)]
    /\ tasks' = [tasks EXCEPT ![k].pc = "target",
                              ![k].priceMovement = abs(tasks[k].price - mc.StartingPrice)]
    /\ UNCHANGED <<BasePrice, generated, clock, handlers, mcpc, outbox, primed, observed>>
    /\ UNCHANGED <<serverVars, limits, componentVars, validationVars, recoveryVars, storageVars, ll>>

\* momentum_catcher.go 109-122, with notifyClient (150-165)
McCheckTarget(k) ==
    /\ tasks[k].pc = "target"
    /\ IF TargetMet(tasks[k].priceMovement, mc.TargetMovement)
       THEN /\ mc' = [mc EXCEPT !.HasReachedTarget = TRUE, !.IsActive = FALSE]
            /\ outbox' = Append(outbox, Notification("TargetReached", mc.Payoff,
                                                     tasks[k].price, tasks[k].t))
       ELSE IF tasks[k].t > mc.ExpiryTime
       THEN /\ mc' = [mc EXCEPT !.IsActive = FALSE]
            /\ outbox' = Append(outbox, Notification("Expired", mc.Payoff,
                                                     tasks[k].price, tasks[k].t))
       ELSE UNCHANGED <<mc, outbox>>
    /\ TaskMoved(k, "done")
    /\ UNCHANGED <<BasePrice, generated, clock, handlers, mcpc, primed, observed>>
    /\ UNCHANGED <<serverVars, limits, componentVars, validationVars, recoveryVars, storageVars, ll>>

\* one statement of goroutine k's HandlePriceUpdate (momentum_catcher.go 86-123)
HandlePriceUpdateStep(k) ==
    \/ McCallback(k)
    \/ McCheckActive(k)
    \/ McCheckStart(k)
    \/ McAssignStart(k)
    \/ McMovement(k)
    \/ McCheckTarget(k)

\* the same submission handler for a LuckyLadder (client.go 758-801, 825-834)
SubmitLadder ==
    /\ mcpc = "idle"
    /\ \E data \in LadderInputs, id \in GenerateUniqueID \ {EmptyID} :
        /\ ll' = InitLuckyLadder(data, clock)
        /\ handlers' = [handlers EXCEPT ![id] = "LuckyLadder"]
    /\ tasks' = [tasks EXCEPT ![0] = Spawn("LuckyLadder", BasePrice, clock)]
    /\ primed' = BasePrice
    /\ mcpc' = "subscribed"
    /\ UNCHANGED <<BasePrice, generated, clock, mc, outbox, observed>>
    /\ UNCHANGED <<serverVars, limits, componentVars, validationVars, recoveryVars, storageVars>>

\* LuckyLadder.HandlePriceUpdate (lucky_ladder.go 61-68): the callback, set
\* before Subscribe, is all it runs
LadderHandlePriceUpdate(k) ==
    /\ tasks[k].h = "LuckyLadder"
    /\ tasks[k].pc = "callback"
    /\ observed' = IF observed = NoPrice THEN tasks[k].price ELSE observed
    /\ outbox' = Append(outbox, PriceUpdate(tasks[k].price, tasks[k].t))
    /\ TaskMoved(k, "done")
    /\ UNCHANGED <<BasePrice, generated, clock, handlers, mc, ll, mcpc, primed>>
    /\ UNCHANGED <<serverVars, limits, componentVars, validationVars, recoveryVars, storageVars>>

ProductNext ==
    \/ SubmitMomentum
    \/ SubmitLadder
    \/ AcceptMomentum
    \/ ProductTick
    \/ \E k \in TaskIds : HandlePriceUpdateStep(k)
    \/ \E k \in TaskIds : LadderHandlePriceUpdate(k)

ProductStart ==
    limits = NoScenario /\ ServerInit /\ ValidationInit /\ ProductInit /\ RecoveryInit /\ StorageInit /\ ComponentInit

ProductSpec == ProductStart /\ [][ProductNext]_vars

(***************************************************************************)
(* Recovery runs (hub.go 40-66).  GetActiveContracts fails or returns a    *)
(* list of ids; for each id in turn GetContractState fails, finds nothing  *)
(* (404, a nil state) or returns a state whose status field is "active",   *)
(* another string, or absent or not a string.                              *)
(***************************************************************************)
ListedIds == 1..NListedIds
ActiveLists == UNION {[1..n -> ListedIds] : n \in 0..MaxListed}

StateError == [err |-> TRUE, found |-> FALSE, status |-> ""]
StateNotFound == [err |-> FALSE, found |-> FALSE, status |-> ""]
\* a decoded state; NotAString stands for a status that is absent or not a string
NotAString == "<none>"
StateOf(status) == [err |-> FALSE, found |-> TRUE, status |-> status]
StateAnswers ==
    {StateError, StateNotFound} \cup {StateOf(st) : st \in ServiceStatuses \cup {NotAString}}

\* the tests of lines 44-55 that only look at the presence of a state
RestorableWhenFound(answer) == ~answer.err /\ answer.found

\* the tests of lines 44-55: none of the three `continue` is taken
Restorable(answer) ==
    /\ ~answer.err
    /\ answer.found
    /\ answer.status # NotAString
    /\ answer.status = "active"

\* line 40: GetActiveContracts fails (line 64 logs, the loop follows) or
\* returns its list
RecoveryList ==
    /\ rpc = "boot"
    /\ \/ /\ rpc' = "run"
          /\ UNCHANGED activeContracts
       \/ /\ \E list \in ActiveLists : activeContracts' = list
          /\ rpc' = "range"
    /\ UNCHANGED <<answers, restoredIds>>
    /\ UNCHANGED <<serverVars, limits, componentVars, validationVars, productVars, storageVars>>

\* lines 41-60: one iteration of the range loop; NewContractProxy, Subscribe
\* and proxy.Start run for an id that passes the tests
RecoveryRestore ==
    /\ rpc = "range"
    /\ Len(answers) < Len(activeContracts)
    /\ \E answer \in StateAnswers :
        /\ answers' = Append(answers, answer)
        /\ restoredIds' =
              IF Restorable(answer)
              THEN restoredIds \cup {activeContracts[Len(answers) + 1]}
              ELSE restoredIds
    /\ UNCHANGED <<rpc, activeContracts>>
    /\ UNCHANGED <<serverVars, limits, componentVars, validationVars, productVars, storageVars>>

\* line 68: the range loop is over, the select loop starts
RecoveryEnterLoop ==
    /\ rpc = "range"
    /\ Len(answers) = Len(activeContracts)
    /\ rpc' = "run"
    /\ UNCHANGED <<activeContracts, answers, restoredIds>>
    /\ UNCHANGED <<serverVars, limits, componentVars, validationVars, productVars, storageVars>>

RecoveryNext == RecoveryList \/ RecoveryRestore \/ RecoveryEnterLoop

RecoveryStart ==
    limits = NoScenario /\ ServerInit /\ ValidationInit /\ ProductInit /\ RecoveryInit /\ StorageInit /\ ComponentInit

RecoverySpec == RecoveryStart /\ [][RecoveryNext]_vars

(***************************************************************************)
(* Storage runs: calls of the Storage methods of PostgresStorage           *)
(* (storage_service/main.go 84-148), each one SQL statement.  A record      *)
(* keeps its ID, its Parameters and IsActive, which stands for the columns *)
(* copied as they are (type, created_at, is_active, duration).  A          *)
(* statement may fail (connection lost): it then changes nothing.          *)
(***************************************************************************)
\* the parameters documents of the runs, as JSON texts
ParameterTexts == {"{}", "{\"a\":1}"}

\* the text PostgreSQL returns for a jsonb column: the value is stored
\* parsed and printed with a space after each colon and comma
JSONB(text) == IF text = "{\"a\":1}" THEN "{\"a\": 1}" ELSE text

StoredContracts ==
    {[ID |-> id, Parameters |-> p, IsActive |-> a] :
        id \in StorageIds, p \in ParameterTexts, a \in BOOLEAN}

\* the row INSERT ... ON CONFLICT (id) DO UPDATE leaves (lines 90-98)
RowOf(contract) == [contract EXCEPT !.Parameters = JSONB(@)]

\* Save (lines 89-100): the statement's key is contract.ID; the id argument
\* is not used
Save(table, id, contract) == [table EXCEPT ![contract.ID] = RowOf(contract)]

\* Get (lines 102-119): the row under id, NoRow for sql.ErrNoRows (nil, nil)
Get(table, id) == table[id]

\* Delete (lines 121-124)
Delete(table, id) == [table EXCEPT ![id] = NoRow]

\* Clean (lines 84-87)
Clean(table) == [id \in DOMAIN table |-> NoRow]

\* GetAll (lines 126-148), as a set
GetAll(table) == {table[id] : id \in {i \in DOMAIN table : table[i] # NoRow}}

Called(op, id, contract, ok) == [op |-> op, id |-> id, contract |-> contract, ok |-> ok]

StorageSave ==
    \E id \in StorageIds, contract \in StoredContracts, ok \in BOOLEAN :
        /\ contracts' = IF ok THEN Save(contracts, id, contract) ELSE contracts
        /\ lastCall' = Called("Save", id, contract, ok)
        /\ UNCHANGED <<serverVars, limits, componentVars, validationVars, productVars, recoveryVars>>

StorageDelete ==
    \E id \in StorageIds, ok \in BOOLEAN :
        /\ contracts' = IF ok THEN Delete(contracts, id) ELSE contracts
        /\ lastCall' = Called("Delete", id, NoRow, ok)
        /\ UNCHANGED <<serverVars, limits, componentVars, validationVars, productVars, recoveryVars>>

StorageClean ==
    \E ok \in BOOLEAN :
        /\ contracts' = IF ok THEN Clean(contracts) ELSE contracts
        /\ lastCall' = Called("Clean", "", NoRow, ok)
        /\ UNCHANGED <<serverVars, limits, componentVars, validationVars, productVars, recoveryVars>>

StorageNext == StorageSave \/ StorageDelete \/ StorageClean

StorageStart ==
    limits = NoScenario /\ ServerInit /\ ValidationInit /\ ProductInit /\ RecoveryInit /\ StorageInit /\ ComponentInit

StorageSpec == StorageStart /\ [][StorageNext]_vars

(***************************************************************************)
(* Generator runs: generatePrice (part_005 98-113, simulation/engine.go    *)
(* 84-99) in floating point.  A float64 is scaled down to the non-negative *)
(* integers up to MaxFloat (the multiples of the smallest positive value)  *)
(* and PosInf; a product is rounded to the nearest value, ties to even,    *)
(* and overflows to PosInf.  The factor math.Exp(...) of one step is a     *)
(* number near 1, inside (1/2, 2) for every number NormFloat64 returns:    *)
(* it is drawn from Factors, as numerator and denominator.                 *)
(***************************************************************************)
PosInf == MaxFloat + 1
\* the initial base price, 100.0
InitialBasePrice == 100
Factors == {<<3, 4>>, <<1, 1>>, <<5, 4>>}

\* num / den rounded to the nearest integer, ties to the even one
RoundHalfEven(num, den) ==
    LET q == num \div den
        r == num % den
    IN  IF 2 * r < den THEN q
        ELSE IF 2 * r > den THEN q + 1
        ELSE IF q % 2 = 0 THEN q ELSE q + 1

\* the float64 product x * (f[1] / f[2])
FloatTimes(x, f) ==
    IF x = PosInf THEN PosInf
    ELSE LET y == RoundHalfEven(x * f[1], f[2]) IN
         IF y > MaxFloat THEN PosInf ELSE y

\* generatePrice: the new base price, which is also the price returned
generatePrice(base, f) == FloatTimes(base, f)

\* one call of generatePrice by the tick loop
GeneratePrice ==
    /\ \E f \in Factors : BasePrice' = generatePrice(BasePrice, f)
    /\ UNCHANGED <<generated, clock, handlers, mc, ll, mcpc, tasks, outbox, primed, observed>>
    /\ UNCHANGED <<serverVars, limits, componentVars, validationVars, recoveryVars, storageVars>>

GeneratorStart ==
    /\ limits = NoScenario
    /\ ServerInit /\ ValidationInit /\ RecoveryInit /\ StorageInit /\ ComponentInit
    /\ BasePrice = InitialBasePrice
    /\ EvaluatorInit

GeneratorSpec == GeneratorStart /\ [][GeneratePrice]_vars

(***************************************************************************)
(* Engine runs, fan-out engine (src/unnamed/part_005): contracts subscribe *)
(* and unsubscribe while the ticker fires.  seSpawned records every        *)
(* goroutine started with `go h.HandlePriceUpdate(p, t)`: the contract,    *)
(* the price, the timestamp and the firing that started it (0 for the      *)
(* priming goroutine of Subscribe).                                        *)
(***************************************************************************)
Call(id, price, t, firing) == [id |-> id, price |-> price, t |-> t, firing |-> firing]

SeSubscribed == {id \in EngineIds : seSubscribers[id] # 0}

\* Subscribe (part_005 75-86); an id is drawn once
EngineSubscribe(id) ==
    /\ \A c \in seSpawned : ~(c.id = id /\ c.firing = 0)
    /\ seSubscribers' = SubscribeTo(seSubscribers, id, id)
    /\ seSpawned' = seSpawned \cup {Call(id, seBasePrice, seClock, 0)}
    /\ seClock' = seClock + 1
    /\ UNCHANGED <<seBasePrice, seSteps, seFirings, seMu, notify>>
    /\ UNCHANGED <<serverVars, limits, validationVars, productVars, recoveryVars, storageVars, hubRunVars>>

\* Unsubscribe (part_005 89-95)
EngineUnsubscribe(id) ==
    /\ seSubscribers[id] # 0
    /\ seSubscribers' = UnsubscribeFrom(seSubscribers, id)
    /\ UNCHANGED <<seBasePrice, seSteps, seFirings, seClock, seSpawned, seMu, notify>>
    /\ UNCHANGED <<serverVars, limits, validationVars, productVars, recoveryVars, storageVars, hubRunVars>>

\* Start, one firing of the ticker (part_005 44-59): under the mutex,
\* generatePrice and the fan-out run when the map is not empty
EngineTick ==
    /\ seFirings < MaxFirings
    /\ seFirings' = seFirings + 1
    /\ seClock' = seClock + 1
    /\ IF SeSubscribed # {}
       THEN \E price \in Prices :
               /\ seBasePrice' = price
               /\ seSteps' = seSteps + 1
               /\ seSpawned' = seSpawned \cup
                      {Call(id, price, seClock, seFirings + 1) : id \in SeSubscribed}
       ELSE UNCHANGED <<seBasePrice, seSteps, seSpawned>>
    /\ UNCHANGED <<seSubscribers, seMu, notify>>
    /\ UNCHANGED <<serverVars, limits, validationVars, productVars, recoveryVars, storageVars, hubRunVars>>

EngineNext ==
    \/ \E id \in EngineIds : EngineSubscribe(id)
    \/ \E id \in EngineIds : EngineUnsubscribe(id)
    \/ EngineTick

\* the start of a run of one component: no session of the server's runs
EngineStart ==
    limits = NoScenario /\ ServerInit /\ ValidationInit /\ ProductInit /\ RecoveryInit /\ StorageInit /\ ComponentInit

EngineSpec == EngineStart /\ [][EngineNext]_vars

(***************************************************************************)
(* Engine runs, synchronous engine (src/internal/simulation/engine.go):    *)
(* the tick loop calls the handlers itself, inside notifySubscribers and   *)
(* under se.mu.  The handlers are ContractProxy objects whose update       *)
(* callback is the one of handleContractSubmission (client.go 157-189):    *)
(* it calls SimulationEngine.Unsubscribe when the service reports a        *)
(* terminal status.  sync.Mutex is not reentrant: Lock waits until the     *)
(* mutex is free, whoever holds it.                                        *)
(***************************************************************************)
Callers == {"hub", "tick"}

\* Subscribe (engine.go 57-62), called by a session's submission handler
SyncSubscribe(id) ==
    /\ seMu = "free"
    /\ seSubscribers[id] = 0
    /\ seSubscribers' = SubscribeTo(seSubscribers, id, id)
    /\ UNCHANGED <<seBasePrice, seSteps, seFirings, seClock, seSpawned, seMu, notify>>
    /\ UNCHANGED <<serverVars, limits, validationVars, productVars, recoveryVars, storageVars, hubRunVars>>

\* Unsubscribe (engine.go 65-69), called by the hub's Unregister branch
\* (hub.go 79) or, on the tick loop's goroutine, by the update callback of
\* the handler being notified (client.go 186)
SyncUnsubscribe(g, id) ==
    /\ seMu = "free"
    /\ IF g = "tick"
       THEN /\ notify.pc = "unsubscribe"
            /\ notify.id = id
            /\ notify' = [notify EXCEPT !.pc = "range", !.id = 0]
       ELSE /\ seSubscribers[id] # 0
            /\ UNCHANGED notify
    /\ seSubscribers' = UnsubscribeFrom(seSubscribers, id)
    /\ UNCHANGED <<seBasePrice, seSteps, seFirings, seClock, seSpawned, seMu>>
    /\ UNCHANGED <<serverVars, limits, validationVars, productVars, recoveryVars, storageVars, hubRunVars>>

\* Start, one firing of the ticker (engine.go 39-41): generatePrice and
\* time.Now(), then the call of notifySubscribers
SyncTick ==
    /\ notify.pc = "select"
    /\ seFirings < MaxFirings
    /\ seFirings' = seFirings + 1
    /\ seSteps' = seSteps + 1
    /\ seClock' = seClock + 1
    /\ \E price \in Prices :
        /\ seBasePrice' = price
        /\ notify' = [AtSelect EXCEPT !.pc = "lock", !.price = price, !.t = seClock]
    /\ UNCHANGED <<seSubscribers, seSpawned, seMu>>
    /\ UNCHANGED <<serverVars, limits, validationVars, productVars, recoveryVars, storageVars, hubRunVars>>

\* notifySubscribers, lines 73-77: se.mu.Lock(), then the range starts
NotifyLock ==
    /\ notify.pc = "lock"
    /\ seMu = "free"
    /\ seMu' = "tick"
    /\ notify' = [notify EXCEPT !.pc = "range", !.todo = SeSubscribed]
    /\ UNCHANGED <<seSubscribers, seBasePrice, seSteps, seFirings, seClock, seSpawned>>
    /\ UNCHANGED <<serverVars, limits, validationVars, productVars, recoveryVars, storageVars, hubRunVars>>

\* notifySubscribers, lines 77-80: one round of the range: the handler is
\* called (proxy.go 64-117); the service answers with a status or fails;
\* on a terminal status the callback goes on to Unsubscribe (client.go 184-186)
NotifyHandler(id) ==
    /\ notify.pc = "range"
    /\ id \in notify.todo
    /\ seSpawned' = seSpawned \cup {Call(id, notify.price, notify.t, seFirings)}
    /\ \E status \in {"err"} \cup ServiceStatuses :
        notify' = IF status \in Terminal
                  THEN [notify EXCEPT !.pc = "unsubscribe", !.id = id, !.todo = @ \ {id}]
                  ELSE [notify EXCEPT !.todo = @ \ {id}]
    /\ UNCHANGED <<seSubscribers, seBasePrice, seSteps, seFirings, seClock, seMu>>
    /\ UNCHANGED <<serverVars, limits, validationVars, productVars, recoveryVars, storageVars, hubRunVars>>

\* notifySubscribers, line 74: the range is over, the deferred Unlock runs
NotifyUnlock ==
    /\ notify.pc = "range"
    /\ notify.todo = {}
    /\ seMu' = "free"
    /\ notify' = AtSelect
    /\ UNCHANGED <<seSubscribers, seBasePrice, seSteps, seFirings, seClock, seSpawned>>
    /\ UNCHANGED <<serverVars, limits, validationVars, productVars, recoveryVars, storageVars, hubRunVars>>

\* the goroutine of the tick loop
TickLoopStep ==
    \/ SyncTick
    \/ NotifyLock
    \/ \E id \in EngineIds : NotifyHandler(id)
    \/ NotifyUnlock
    \/ \E id \in EngineIds : SyncUnsubscribe("tick", id)

SyncEngineNext ==
    \/ \E id \in EngineIds : SyncSubscribe(id)
    \/ \E g \in Callers, id \in EngineIds : SyncUnsubscribe(g, id)
    \/ SyncTick
    \/ NotifyLock
    \/ \E id \in EngineIds : NotifyHandler(id)
    \/ NotifyUnlock

SyncEngineSpec == EngineStart /\ [][SyncEngineNext]_vars

\* the tick loop's goroutine is scheduled as long as it can take a step
FairSyncEngineSpec == SyncEngineSpec /\ WF_vars(TickLoopStep)

(***************************************************************************)
(* Hub runs (hub.go 66-96, cmd/pricingserver/main.go 17-34).  Each branch  *)
(* of the select runs under h.mu and is one step.                          *)
(***************************************************************************)
\* a membership test that always succeeds
InTableAlways(table, c) == TRUE

\* `_, ok := h.Clients[client]` (hub.go 74)
InTable(table, c) == c \in table

\* serveWs and the Register branch (hub.go 68-71): serveWs hands the new
\* client to the hub once, before it starts the pumps
HubRunRegister(c) ==
    /\ ~hPanicked
    /\ hSession[c] = "new"
    /\ hClients' = hClients \cup {c}
    /\ hSession' = [hSession EXCEPT ![c] = "open"]
    /\ UNCHANGED <<hSend, hClosed, hContracts, hSubscribers, hBroadcasts, hPanicked>>
    /\ UNCHANGED <<serverVars, limits, validationVars, productVars, recoveryVars, storageVars, engineRunVars>>

\* handleContractSubmission (client.go 571-581) of an accepted submission:
\* Subscribe, the insertion into c.Contracts and the confirmation's
\* `c.Send <- message`, which waits for room and panics on a closed channel
HubRunSubmit(c) ==
    /\ ~hPanicked
    /\ hSession[c] = "open"
    /\ hClosed[c] > 0 \/ hSend[c] < HubCap
    /\ \E id \in HubIds :
        /\ \A b \in Clients : id \notin hContracts[b]
        /\ hSubscribers' = hSubscribers \cup {id}
        /\ hContracts' = [hContracts EXCEPT ![c] = @ \cup {id}]
    /\ IF hClosed[c] > 0
       THEN /\ hPanicked' = TRUE
            /\ UNCHANGED hSend
       ELSE /\ hSend' = [hSend EXCEPT ![c] = @ + 1]
            /\ UNCHANGED hPanicked
    /\ UNCHANGED <<hClients, hSession, hClosed, hBroadcasts>>
    /\ UNCHANGED <<serverVars, limits, validationVars, productVars, recoveryVars, storageVars, engineRunVars>>

\* WritePump (client.go 614-626) takes a frame from the channel
HubRunWrite(c) ==
    /\ ~hPanicked
    /\ hSend[c] > 0
    /\ hSend' = [hSend EXCEPT ![c] = @ - 1]
    /\ UNCHANGED <<hClients, hSession, hClosed, hContracts, hSubscribers, hBroadcasts, hPanicked>>
    /\ UNCHANGED <<serverVars, limits, validationVars, productVars, recoveryVars, storageVars, engineRunVars>>

\* the Unregister branch (hub.go 72-83), reached once per client, when its
\* ReadPump returns: a client in the table is deleted and closed (closing
\* a closed channel panics), and its contracts are unsubscribed
HubRunUnregister(c) ==
    /\ ~hPanicked
    /\ hSession[c] = "open"
    /\ hSession' = [hSession EXCEPT ![c] = "left"]
    /\ IF InTable(hClients, c)
       THEN /\ hClients' = hClients \ {c}
            /\ hClosed' = [hClosed EXCEPT ![c] = @ + 1]
            /\ hPanicked' = (hClosed[c] > 0)
            /\ hSubscribers' = IF hClosed[c] > 0 THEN hSubscribers
                               ELSE hSubscribers \ hContracts[c]
       ELSE UNCHANGED <<hClients, hClosed, hPanicked, hSubscribers>>
    /\ UNCHANGED <<hSend, hContracts, hBroadcasts>>
    /\ UNCHANGED <<serverVars, limits, validationVars, productVars, recoveryVars, storageVars, engineRunVars>>

\* the Broadcast branch (hub.go 84-94): every client of the table is
\* offered the message; one whose channel is full is closed and deleted
HubRunBroadcast ==
    /\ ~hPanicked
    /\ hBroadcasts < MaxBroadcasts
    /\ hBroadcasts' = hBroadcasts + 1
    /\ LET full == {c \in hClients : hSend[c] >= HubCap} IN
        /\ hSend' = [c \in Clients |->
                        IF c \in hClients \ full THEN hSend[c] + 1 ELSE hSend[c]]
        /\ hClosed' = [c \in Clients |-> IF c \in full THEN hClosed[c] + 1 ELSE hClosed[c]]
        /\ hClients' = hClients \ full
        /\ hPanicked' = (\E c \in hClients : hClosed[c] > 0)
    /\ UNCHANGED <<hSession, hContracts, hSubscribers>>
    /\ UNCHANGED <<serverVars, limits, validationVars, productVars, recoveryVars, storageVars, engineRunVars>>

HubRunNext ==
    \/ \E c \in Clients : HubRunRegister(c)
    \/ \E c \in Clients : HubRunSubmit(c)
    \/ \E c \in Clients : HubRunWrite(c)
    \/ \E c \in Clients : HubRunUnregister(c)
    \/ HubRunBroadcast

HubRunSpec == EngineStart /\ [][HubRunNext]_vars

(***************************************************************************)
(* Properties.                                                             *)
(***************************************************************************)
\* the proxy of an accepted submission: its ContractAccepted has been enqueued
Accepted(k) ==
    /\ proxy[k].created
    /\ proxy[k].owner # 0
    /\ \A c \in Clients : cur[c] # k

\* C1: the ContractAccepted frame of a contract is enqueued before any
\* ContractUpdate frame of that contract: while the submission handler has
\* not yet enqueued ContractAccepted, no delivery to the contract's proxy is
\* past the callback's send.
C1_AcceptedBeforeUpdate ==
    \A c \in Clients : \A d \in deliveries :
        (cur[c] # 0 /\ d.k = cur[c]) => d.pc \notin {"unsubscribe", "store"}

\* no handler, delivery or hub step is at work on proxy k
Quiescent(k) ==
    /\ \A d \in deliveries : d.k # k
    /\ \A c \in Clients : cur[c] # k
    /\ hubProxy # k
    /\ hubpc # "unregister"

\* C2: a contract is a key of the subscriber map iff it is active (isActive
\* and last reported status not terminal), for submitted and for restored
\* contracts, whenever nothing is at work on the contract.
C2_SubscribedIffActive ==
    \A k \in ProxyIds :
        (proxy[k].created /\ Quiescent(k)) =>
            ((subscribers[proxy[k].contractID] = k)
                <=> (proxy[k].isActive /\ proxy[k].lastResponse \notin Terminal))

\* C3: the timestamps one handler observes in successive HandlePriceUpdate
\* invocations never decrease.
C3_TimestampOrder ==
    [][\A k \in ProxyIds : proxy'[k].lastSeen >= proxy[k].lastSeen]_vars

\* C4: a tick delivery that has an update to enqueue is never blocked: its
\* send step can always be taken (a try-send drops the update instead).
C4_TickSendNeverBlocks ==
    \A d \in deliveries :
        (~panicked /\ d.src = "tick" /\ d.pc = "send") => ENABLED DeliverCallbackSend(d)

\* C5: after a session's read pump has ended, the hub eventually receives
\* its unregistration and every id of the session's Contracts is absent
\* from the subscriber map.
C5_TeardownCompletes ==
    \A c \in Clients :
        (cpc[c] = "unregister")
            ~> (/\ cpc[c] = "done"
                /\ \A id \in Contracts[c] : subscribers[id] = 0)

\* C6: once Unsubscribe has returned for a handler, HandlePriceUpdate is not
\* invoked on it again: a goroutine that has not yet begun never begins.
C6_NoCallAfterUnsubscribe ==
    [][\A d \in deliveries :
          (d.pc = "go" /\ proxy[d.k].unsubscribed) => d \in deliveries']_vars

\* C7: once isActive of a proxy is false it stays false.
C7_InactiveIsAbsorbing ==
    [][\A k \in ProxyIds :
          (proxy[k].created /\ ~proxy[k].isActive) => ~proxy'[k].isActive]_vars

\* C8: once the terminal branch has released a contract, its id is in
\* neither the subscriber map nor the owner's Contracts again (ids that a
\* second proxy shares are left out).
C8_ReleasedStaysReleased ==
    \A k \in ProxyIds :
        (/\ proxy[k].released
         /\ \A j \in ProxyIds \ {k} :
               proxy[j].created => proxy[j].contractID # proxy[k].contractID)
        => /\ subscribers[proxy[k].contractID] = 0
           /\ proxy[k].contractID \notin Contracts[proxy[k].owner]

\* C9: the sessions' Contracts are pairwise disjoint, no two accepted
\* contracts share an id, and every accepted id is a 32-character token.
C9_UniqueIds ==
    /\ \A c1, c2 \in Clients : c1 # c2 => Contracts[c1] \cap Contracts[c2] = {}
    /\ \A j, k \in ProxyIds :
          (j # k /\ Accepted(j) /\ Accepted(k)) => proxy[j].contractID # proxy[k].contractID
    /\ \A k \in ProxyIds : Accepted(k) => proxy[k].contractID # EmptyID

\* the acceptance rule as the specification words it
StrictlyAscending(rungs) ==
    \A i, j \in 1..Len(rungs) : i < j => rungs[i] < rungs[j]

AcceptanceRule(data) ==
    /\ data.ProductType \in {"LuckyLadder", "MomentumCatcher"}
    /\ data.Duration > 0
    /\ data.Payoff > 0
    /\ \/ /\ data.ProductType = "LuckyLadder"
          /\ Len(data.Rungs) > 0
          /\ StrictlyAscending(data.Rungs)
       \/ /\ data.ProductType = "MomentumCatcher"
          /\ data.TargetMovement > 0

IsSubmission(f) ==
    f.valid /\ f.isMessage /\ f.Type = MessageTypeContractSubmission

OneValidationError(replies) ==
    /\ Len(replies) = 1
    /\ replies[1].type = MessageTypeError
    /\ replies[1].errorType = ErrorTypeValidation

LadderWithRungs(f) ==
    /\ IsSubmission(f) /\ f.hasData /\ f.decodes
    /\ f.data.ProductType = "LuckyLadder"
    /\ f.data.Duration > 0
    /\ f.data.Payoff > 0
    /\ Len(f.data.Rungs) > 0

RepeatsValue(rungs) ==
    \E i, j \in 1..Len(rungs) : i # j /\ rungs[i] = rungs[j]

\* C11: for a LuckyLadder submission with rungs, a list that repeats a
\* value (anywhere, in any order) is rejected with the duplicate message,
\* and a list without repeats that is not ascending with the message that
\* mentions ascending order.
C11_DuplicateBeforeOrder ==
    (vin.state = "handled" /\ LadderWithRungs(vin.frame)) =>
        LET rungs == vin.frame.data.Rungs IN
        /\ RepeatsValue(rungs) =>
              vreplies = <<ErrorResponse(ErrorTypeValidation,
                                         "duplicate rung values are not allowed")>>
        /\ (~RepeatsValue(rungs) /\ ~StrictlyAscending(rungs)) =>
              vreplies = <<ErrorResponse(ErrorTypeValidation,
                                         "rungs must be in ascending order")>>

\* a list that descends and repeats a value in non-adjacent places has been
\* rejected as a duplicate
C11_Witness ==
    /\ vin.state = "handled"
    /\ LadderWithRungs(vin.frame)
    /\ vin.frame.data.Rungs = <<2, 1, 2>>
    /\ vreplies = <<ErrorResponse(ErrorTypeValidation,
                                  "duplicate rung values are not allowed")>>

ParseErrorReply == ErrorResponse(ErrorTypeParse, "Invalid JSON format")

\* C12: a frame that is not valid JSON is answered with exactly one Error
\* frame of type ParseError, after which the read pump reads on with the
\* session registered and its queue open; a valid submission handled after
\* that ends, as on a fresh session, with ContractAccepted once the service
\* has added the contract.
C12_InvalidJSONRecovers ==
    [][\A c \in Clients :
          /\ (frame[c] = IdleFrame /\ frame'[c] = InvalidJSONFrame) =>
                /\ cpc'[c] = "reply"
                /\ pending'[c] = ParseErrorReply
                /\ Send'[c] = Send[c]
          /\ (frame[c] = InvalidJSONFrame /\ frame'[c] # InvalidJSONFrame) =>
                /\ cpc'[c] = "read"
                /\ Send'[c] = Append(Send[c], ParseErrorReply)
                /\ c \in registered'
                /\ ~closed'[c]
                /\ ~panicked'
          /\ (/\ badJSON[c]
              /\ frame[c] = Submission(ValidMomentum)
              /\ frame'[c] = IdleFrame
              /\ cur[c] # 0) =>
                Send'[c] = Append(Send[c], ContractAccepted(proxy[cur[c]].contractID))]_vars

\* a session that was answered a ParseError has had a submission accepted
C12_Witness ==
    \E c \in Clients :
        /\ badJSON[c]
        /\ Send[c] # <<>>
        /\ Send[c][Len(Send[c])].type = MessageTypeContractAccepted

\* session c is handling a submission it rejects: the data does not decode,
\* validation fails, or AddContract has failed
Rejecting(fr, pend, c) ==
    \/ fr[c] = UndecodableSubmission
    \/ /\ IsSubmission(fr[c]) /\ fr[c].hasData /\ fr[c].decodes
       /\ ~AcceptanceRule(fr[c].data)
    \/ /\ IsSubmission(fr[c]) /\ fr[c].hasData /\ fr[c].decodes
       /\ pend[c] = AddContractFailed

\* C13: handling a rejected submission changes neither the subscriber map
\* nor the session's Contracts, starts no delivery and creates no proxy; it
\* enqueues one Error frame and the read pump reads on, the session still
\* registered with its queue open.
C13_RejectionHasNoEffect ==
    [][\A c \in Clients :
          /\ (frame[c] = IdleFrame /\ Rejecting(frame', pending', c)) =>
                /\ subscribers' = subscribers
                /\ Contracts' = Contracts
                /\ deliveries' = deliveries
                /\ nproxies' = nproxies
                /\ cpc'[c] = "reply"
                /\ pending'[c].type = MessageTypeError
          /\ (Rejecting(frame, pending, c) /\ frame'[c] = IdleFrame) =>
                /\ subscribers' = subscribers
                /\ Contracts' = Contracts
                /\ deliveries' = deliveries
                /\ Send'[c] = Append(Send[c], pending[c])
                /\ cpc'[c] = "read"
                /\ c \in registered'
                /\ ~closed'[c]]_vars

\* a session that owns a subscribed contract is about to answer a
\* submission that failed validation
C13_Witness ==
    \E c \in Clients :
        /\ frame[c] = InvalidPayoff
        /\ cpc[c] = "reply"
        /\ Contracts[c] # {}
        /\ \E id \in Contracts[c] : subscribers[id] # 0

\* a call to the contracts service failed while the frame of the validation
\* run was handled
CollaboratorFailed ==
    \/ ReadPumpFrame(vin.frame).op = "create" /\ ~vin.addOk
    \/ ReadPumpFrame(vin.frame).op = "lookup" /\ vin.resp = "err"

\* C14: a failure of the contracts service is not propagated to the client:
\* the frame during whose handling AddContract or GetContractState failed is
\* not answered with an Error frame.
C14_FailuresSwallowed ==
    (vin.state = "handled" /\ CollaboratorFailed) =>
        \A i \in 1..Len(vreplies) : vreplies[i].type # MessageTypeError

IsQuery(f) ==
    f.valid /\ f.isMessage /\ f.Type = MessageTypeContractQuery /\ f.ContractID # EmptyID

\* the reply the specification gives a query: the state when the service
\* returns one, an Error otherwise
QueryReplyFits(m, cid, resp) ==
    IF resp = "state" THEN m = ContractUpdate(cid) ELSE m.type = MessageTypeError

\* C15: a ContractQuery with a contractID gets exactly one reply, a
\* ContractUpdate with that contractID when the service returns a state and
\* an Error otherwise, and handling it changes neither the subscriber map
\* nor any session's Contracts.
C15_QueryReply ==
    [][\A c \in Clients :
          /\ (frame[c] = IdleFrame /\ IsQuery(frame'[c])) =>
                /\ \E resp \in {"err", "nil", "state"} :
                      /\ pending'[c] = handleContractQuery(frame'[c].ContractID, resp)
                      /\ QueryReplyFits(pending'[c], frame'[c].ContractID, resp)
                /\ cpc'[c] = "reply"
                /\ Send'[c] = Send[c]
                /\ subscribers' = subscribers
                /\ Contracts' = Contracts
          /\ (IsQuery(frame[c]) /\ frame'[c] = IdleFrame) =>
                /\ Send'[c] = Append(Send[c], pending[c])
                /\ cpc'[c] = "read"
                /\ subscribers' = subscribers
                /\ Contracts' = Contracts]_vars

\* the session queries the contract it owns and is about to be sent its state
C15_Witness ==
    \E c \in Clients :
        /\ IsQuery(frame[c])
        /\ cpc[c] = "reply"
        /\ pending[c] = ContractUpdate(frame[c].ContractID)
        /\ frame[c].ContractID \in Contracts[c]

\* C16: once a session's write pump has exited on a failed write, the
\* session is eventually unregistered with all its contracts unsubscribed
\* (unless the process has died), whatever the state of its Send queue.
C16_WriteFailureTearsDown ==
    \A c \in Clients :
        (~writing[c] /\ cpc[c] \in {"read", "start", "assign", "reply", "unregister"})
            ~> (\/ panicked
                \/ /\ cpc[c] = "done"
                   /\ \A id \in Contracts[c] : subscribers[id] = 0)

\* C17: the frames of a session leave its Send queue, for the connection,
\* in the order they were enqueued: every step that shortens the queue
\* removes exactly its oldest frame, every step that lengthens it appends
\* one frame behind the others, and no other step changes it.
C17_WriteOrder ==
    [][\A c \in Clients :
          /\ Len(Send'[c]) < Len(Send[c]) => Send'[c] = Tail(Send[c])
          /\ Len(Send'[c]) > Len(Send[c]) =>
                /\ Len(Send'[c]) = Len(Send[c]) + 1
                /\ SubSeq(Send'[c], 1, Len(Send[c])) = Send[c]
          /\ Len(Send'[c]) = Len(Send[c]) => Send'[c] = Send[c]]_vars

\* two different frames are queued for a running write pump
C17_Witness ==
    \E c \in Clients :
        /\ writing[c]
        /\ Len(Send[c]) = 2
        /\ Send[c][1] # Send[c][2]


\* C18: the first price the handler is called with after Subscribe is the
\* base price Subscribe read (the priming event), and a starting price, once
\* established, equals that base price.
C18_FirstPriceIsPriming ==
    /\ observed # NoPrice => observed = primed
    /\ mc.StartingPrice # NoPrice => mc.StartingPrice = primed


\* C19: once StartingPrice has been set by a delivery, no later step of any
\* delivery (priming or per-tick goroutine) changes it.
C19_StartingPriceSetOnce ==
    [][mc.StartingPrice # NoPrice => mc'.StartingPrice = mc.StartingPrice]_vars


\* the target test of goroutine k is about to run on an active evaluator
\* with a timestamp that is not after the expiry time
AtTargetTest(k) ==
    /\ tasks[k].pc = "target"
    /\ mc.IsActive
    /\ ~(tasks[k].t > mc.ExpiryTime)

TargetReachedBy(k) ==
    Notification("TargetReached", mc.Payoff, tasks[k].price, tasks[k].t)

C21_ExpiryFirst ==
    [][\A k \in TaskIds :
          /\ tasks[k].pc = "target"
          /\ mc.IsActive
          /\ tasks[k].t >= mc.ExpiryTime
          /\ tasks'[k].pc = "done"
          => /\ ~mc'.IsActive
             /\ ~mc'.HasReachedTarget
             /\ Len(outbox') = Len(outbox) + 1
             /\ outbox'[Len(outbox')].status = "Expired"]_vars

\* C22: a TargetReached notification carries the contract's payoff, and an
\* Expired notification of a contract whose target was not reached carries
\* a payoff of zero.
C22_PayoutPolicy ==
    \A i \in 1..Len(outbox) :
        /\ outbox[i].status = "TargetReached" => outbox[i].payoff = mc.Payoff
        /\ outbox[i].status = "Expired" /\ ~mc.HasReachedTarget => outbox[i].payoff = 0


LadderSubscribed == \E id \in ContractIDs : handlers[id] = "LuckyLadder"

\* goroutine k's delivery to the ladder has just run
LadderDelivered(k) ==
    /\ tasks[k].h = "LuckyLadder"
    /\ tasks[k].pc = "callback"
    /\ tasks'[k].pc = "done"

\* the rungs recorded as hit, and the others
HitSet(l) == {r \in DOMAIN l.HitRungs : l.HitRungs[r]}
RemainingSet(l) == {r \in DOMAIN l.HitRungs : ~l.HitRungs[r]}

\* C23: a price event delivered to an active ladder before its expiry marks
\* as hit every rung at or below the price, and a ladder with rungs none of
\* which remains un-hit is no longer active.
C23_RungsHit ==
    [][\A k \in TaskIds :
          LadderDelivered(k) /\ ll.IsActive /\ ~(tasks[k].t > ll.ExpiryTime) =>
             /\ \A r \in Range(ll.Rungs) :
                   tasks[k].price >= r => r \in HitSet(ll')
             /\ ll.Rungs # <<>> /\ Range(ll'.Rungs) \subseteq HitSet(ll') => ~ll'.IsActive]_vars


\* C24: for an initialized ladder the hit rungs and the remaining rungs are
\* disjoint, together they are exactly the input rungs (the keys of HitRungs
\* are the rung values), and no step unmarks a rung that is marked hit.
C24_HitRungsPartition ==
    /\ [](LadderSubscribed =>
             /\ HitSet(ll) \cap RemainingSet(ll) = {}
             /\ HitSet(ll) \cup RemainingSet(ll) = Range(ll.Rungs)
             /\ DOMAIN ll.HitRungs = Range(ll.Rungs))
    /\ [][HitSet(ll) \subseteq HitSet(ll')]_vars

\* a ladder with two distinct rungs has received its priming event and a tick
C24_Witness ==
    /\ LadderSubscribed
    /\ Cardinality(Range(ll.Rungs)) = 2
    /\ \A k \in TaskIds : tasks[k].h = "LuckyLadder" /\ tasks[k].pc = "done"


\* the ids processed so far whose state was fetched without error, was found
\* and has the status "active"
ActiveAmongProcessed ==
    {activeContracts[i] : i \in {j \in 1..Len(answers) :
        answers[j] \in {StateOf("active")}}}

\* C25: at every point of boot recovery the ids subscribed are exactly the
\* processed ids of the list whose state fetch succeeded with a state of
\* status "active"; while the hub has not entered its loop a step of
\* recovery is possible, whatever the answers so far; the hub enters its
\* loop only after the whole list has been processed, and with nothing
\* subscribed when GetActiveContracts failed.
C25_RecoverySkipsFailures ==
    /\ restoredIds = ActiveAmongProcessed
    /\ rpc # "run" => ENABLED RecoveryNext
    /\ rpc = "run" => Len(answers) = Len(activeContracts)

\* a failure for one id was followed by the restoration of a later id, and
\* the hub entered its loop
C25_Witness ==
    /\ rpc = "run"
    /\ \E i, j \in 1..Len(answers) :
        /\ i < j
        /\ answers[i] # StateOf("active")
        /\ answers[j] = StateOf("active")
        /\ activeContracts[i] # activeContracts[j]
        /\ activeContracts[j] \in restoredIds
        /\ activeContracts[i] \notin restoredIds


\* C26: on every subscriber map the engine reaches, Subscribe(id, h) then
\* Unsubscribe(id) gives the map without an entry for id and with its other
\* entries as they were; Unsubscribe of an id without an entry, a second
\* Unsubscribe included, changes nothing; Subscribe on an id that has an
\* entry leaves the last handler as the only one under id.
C26_SubscribeUnsubscribe ==
    \A id \in ContractIDs, h \in ProxyIds :
        LET after == UnsubscribeFrom(SubscribeTo(subscribers, id, h), id) IN
        /\ after[id] = 0
        /\ \A other \in ContractIDs \ {id} : after[other] = subscribers[other]
        /\ subscribers[id] = 0 => UnsubscribeFrom(subscribers, id) = subscribers
        /\ UnsubscribeFrom(after, id) = after
        /\ \A g \in ProxyIds :
              LET twice == SubscribeTo(SubscribeTo(subscribers, id, g), id, h) IN
              /\ twice[id] = h
              /\ \A other \in ContractIDs \ {id} : twice[other] = subscribers[other]

\* an id was subscribed and then unsubscribed while another id keeps its
\* handler
C26_Witness ==
    \E id \in ContractIDs, k \in ProxyIds :
        /\ proxy[k].created
        /\ proxy[k].contractID = id
        /\ proxy[k].unsubscribed
        /\ subscribers[id] = 0
        /\ \E other \in ContractIDs \ {id} : subscribers[other] # 0


\* C27: after a Save(id, record) that succeeded, Get(id) returns that
\* record, and the table holds at most one row per id; after a Delete(id)
\* that succeeded, Get(id) finds nothing and the other rows are as before;
\* after a Clean that succeeded, GetAll is empty.
C27_StorageLaws ==
    /\ [](lastCall.ok /\ lastCall.op = "Save" =>
             Get(contracts, lastCall.id) = lastCall.contract)
    /\ [](lastCall.ok /\ lastCall.op = "Delete" =>
             Get(contracts, lastCall.id) = NoRow)
    /\ [](lastCall.ok /\ lastCall.op = "Clean" => GetAll(contracts) = {})
    /\ [][\A id \in StorageIds :
             lastCall'.ok /\ lastCall'.op = "Delete" /\ lastCall'.id # id
                => contracts'[id] = contracts[id]]_vars


\* C28: in every state the generator reaches from its initial base price,
\* the base price (the price the last step returned) is a finite, strictly
\* positive number.
C28_BasePricePositive == BasePrice > 0 /\ BasePrice # PosInf


\* goroutine k has entered mc.HandlePriceUpdate and has not returned: it is
\* between the statements that read and write the evaluator's fields
InsideHandlePriceUpdate(k) ==
    /\ tasks[k].h = "MomentumCatcher"
    /\ tasks[k].pc \in {"active", "start", "assign", "history", "target"}

\* C29: at most one invocation of HandlePriceUpdate is executing on the
\* evaluator at any time, whatever the interleaving of the priming delivery
\* and the per-tick deliveries.
C29_OneDeliveryAtATime ==
    Cardinality({k \in TaskIds : InsideHandlePriceUpdate(k)}) <= 1


C31_OneStepPerTick == seSteps = seFirings

\* C35: in the synchronous engine notifySubscribers always completes and
\* releases the mutex: while the tick loop holds se.mu it can take its
\* next step, also when a handler's callback calls Unsubscribe.
C35_NotifyCompletes == seMu = "tick" => ENABLED TickLoopStep

\* C32: on a tick every handler that is in the subscriber map when the tick
\* takes the mutex is delivered the tick's event, and the events of one
\* tick carry one price and one timestamp.
C32_EveryHandlerDelivered ==
    /\ [](\A c1, c2 \in seSpawned :
            c1.firing = c2.firing /\ c1.firing > 0 =>
                c1.price = c2.price /\ c1.t = c2.t)
    /\ \A id \in EngineIds :
        (notify.pc = "range" /\ id \in notify.todo)
            ~> (\E c \in seSpawned : c.id = id /\ c.firing = seFirings)

\* the IsActive field of the evaluator a goroutine was started for
EvaluatorActive(h) == IF h = "MomentumCatcher" THEN mc.IsActive ELSE ll.IsActive

\* C33: a price event delivered to an evaluator that is not active produces
\* no update: the goroutine leaves the callback's place without a frame
\* being offered to the session's Send channel.
C33_InactiveIsSilent ==
    [][\A k \in TaskIds :
          /\ tasks[k].pc = "callback"
          /\ tasks'[k].pc # "callback"
          /\ ~EvaluatorActive(tasks[k].h)
          => outbox' = outbox]_vars

\* C34: no goroutine executes a send on a session's Send channel after
\* the hub has closed it: the panic of such a send never happens.
C34_NoSendAfterClose == ~panicked

\* the tasks whose next statement reads or writes the Contracts map of
\* session c: delivery goroutines at the callback's delete (no lock), the
\* submission handler at its insertion (client mutex), the hub in the
\* range of its Unregister branch (hub mutex)
ContractsAccesses(c) ==
    Cardinality({d \in deliveries : d.pc = "unsubscribe" /\ proxy[d.k].owner = c})
    + (IF cpc[c] = "assign" THEN 1 ELSE 0)
    + (IF hubpc = "unregister" /\ hubClient = c THEN 1 ELSE 0)

\* C36: a session's Contracts map is never about to be accessed by two
\* tasks at once.
C36_ContractsExclusive == \A c \in Clients : ContractsAccesses(c) <= 1

\* C37: the state an update callback has read with proxy.GetState() is the
\* service's response to the callback's own price event: its status is the
\* status of that response, so a terminal one is detected.
C37_CallbackSeesOwnResponse ==
    \A d \in deliveries : d.pc \in {"send", "unsubscribe"} => d.state = d.status

\* C39: a session's Send channel is closed at most once, and a closed
\* client is no longer in the hub's table.
C39_ClosedAtMostOnce ==
    \A c \in Clients :
        /\ hClosed[c] <= 1
        /\ hClosed[c] > 0 => c \notin hClients

\* a client closed by the Broadcast branch (its contracts are still
\* subscribed) whose Unregister has been handled since, next to a client
\* closed by the Unregister branch
C39_Witness ==
    \E c, b \in Clients :
        /\ hSession[c] = "left" /\ hClosed[c] = 1
        /\ hContracts[c] \cap hSubscribers # {}
        /\ hSession[b] = "left" /\ hClosed[b] = 1
        /\ hContracts[b] # {} /\ hContracts[b] \cap hSubscribers = {}

\* C38: whenever the hub removes a client from its table, by the
\* Unregister or by the Broadcast branch, no contract of the client's
\* Contracts map is subscribed to the engine afterwards.
C38_RemovalUnsubscribes ==
    [][\A c \in Clients :
          c \in hClients /\ c \notin hClients' => hContracts[c] \cap hSubscribers' = {}]_vars

\* C40: in the validating session every frame the read pump reads is
\* answered by exactly one direct reply, a ContractAccepted, a
\* ContractUpdate or an Error, enqueued by the pump before it reads the next
\* frame: reading enqueues nothing, the handler's steps enqueue nothing, no
\* frame is read while one is being handled, and the pump returns to its
\* read by appending the one reply to the session's Send channel.
C40_OneReplyPerFrame ==
    [][\A c \in Clients :
          /\ (frame[c] = IdleFrame /\ frame'[c] # IdleFrame) =>
                /\ Send'[c] = Send[c]
                /\ cpc'[c] # "read"
          /\ (frame[c] # IdleFrame /\ frame'[c] # IdleFrame) =>
                /\ frame'[c] = frame[c]
                /\ cpc'[c] # cpc[c] => Send'[c] = Send[c]
          /\ (frame[c] # IdleFrame /\ frame'[c] = IdleFrame) =>
                /\ pending[c] # NoMsg
                /\ pending[c].type \in {MessageTypeContractAccepted,
                                        MessageTypeContractUpdate, MessageTypeError}
                /\ Send'[c] = Append(Send[c], pending[c])]_vars

\* a session back at its read with two replies queued, an Error for a
\* rejected frame and the ContractAccepted of a submission
C40_Witness ==
    \E c \in Clients :
        /\ cpc[c] = "read"
        /\ frame[c] = IdleFrame
        /\ Len(Send[c]) = 2
        /\ {Send[c][1].type, Send[c][2].type} =
               {MessageTypeError, MessageTypeContractAccepted}

====
